---- MODULE Spec2Model ----
(***************************************************************************)
(* Model of the ingestion-and-enrichment core of the competitor tracker:   *)
(* the sliding-window RateLimiter (sentiment_analysis/utils/rate_limiter), *)
(* the GroqSentimentAnalyzer (sentiment_analysis/api/groq_client) and the  *)
(* DatabaseManager (sentiment_analysis/database/db_manager).               *)
(*                                                                         *)
(* Time is discrete.  One tick is 60/TicksPerMinute seconds; the 0.1 s     *)
(* safety margin of wait_if_needed is one tick, the smallest delay that    *)
(* ends strictly after the deadline.  Code between two blocking points runs*)
(* at one instant; a sleep ends at its deadline.                           *)
(***************************************************************************)
EXTENDS Integers, Sequences, FiniteSets, TLC

\* ------------------------------------------------------------------ bounds
NThreads == 2
MaxTime == 5
MaxRpm == 2
MaxTokens == 2
MaxTpm == 1
MaxQueue == 3
MaxCalls == 3
MaxPad == 1
MaxBatch == 2
MaxRows == 4
MaxSentiments == 2
MaxProductWrites == 3
MaxPages == 2
MaxOps == 3
MaxStoreRows == 3
MaxLimit == 2
MaxListing == 2
MaxTexts == 3
TicksPerMinute == 2

\* --------------------------------------------------------------- constants
\* timedelta(minutes=1), in ticks
Window == TicksPerMinute
\* the "+ 0.1" of time.sleep(wait_seconds + 0.1), in ticks
Margin == 1
DashboardMaxPages == 5
\* len(review_text.strip()) < 10
MinReviewLength == 10
\* response.usage.total_tokens if response.usage else 100
DefaultTokens == 100

Threads == 1..NThreads
NoThread == 0
\* the one caller of the sequential specifications
Main == 1

VARIABLES
    now,            \* datetime.now()
    max_rpm,        \* RateLimiter.max_rpm
    max_tpm,        \* RateLimiter.max_tpm
    request_times,  \* RateLimiter.request_times: deque of timestamps
    token_counts,   \* RateLimiter.token_counts: deque of <<timestamp, tokens>>
    lock,           \* RateLimiter.lock: its holder, or NoThread
    pc,             \* where each thread is
    wakeAt,         \* the instant a thread's time.sleep ends
    enteredAt,      \* when a thread's wait_if_needed got the lock
    enteredOldest,  \* request_times[0] then, when the limit was reached
    outcome,        \* how a thread's last wait_if_needed ended
    waited,         \* how long that call took from the lock to its return
    oldestAge,      \* the age, at that return, of enteredOldest
    usage,          \* the last dict returned by get_current_usage
    review_text,    \* the argument of the last analyze_sentiment call
    content,        \* response.choices[0].message.content of that call
    exception,      \* the exception raised inside its try block
    ret,            \* how that call ended: the dict returned or the exception raised
    remote_starts,  \* when the client.chat.completions.create calls of the
                    \* last window started
    reviews,        \* the rows of the reviews table, in rowid order
    batch,          \* the argument of the last insert_reviews call
    inserted,       \* what that call returned
    written,        \* the review ids whose INSERT has been executed so far
    products,       \* the rows of the products table, in rowid order
    product_seq,    \* the largest rowid the products table has used
    sentiment_analysis, \* the rows of the sentiment_analysis table, in rowid order
    op,             \* the last DatabaseManager method called, insert_reviews apart
    product_data,   \* the argument of the last insert_product call
    results,        \* the argument of the last insert_sentiment_results call
    sa_inserted,    \* what that call returned
    limit,          \* the argument of the last get_unanalyzed_reviews call
    unanalyzed,     \* what that call returned
    pl_pc,          \* where the pipeline process is
    urls,           \* product_urls of the full run in progress
    url_idx,        \* the position of its for loop in product_urls
    attempted,      \* the positions whose URL scrape_product was called with
    pending_reviews, \* what the last incremental run fetched
    run_log,        \* per URL of the full run: what was fetched and done
    last_run,       \* the full run completed last: its run_log and the store after it
    ops,            \* how many pipeline operations have started
    calls,          \* the calls the last step of the pipeline made, in order
    listing,        \* the review blocks the Flipkart product page shows now
    scrape_call,    \* the last scrape_reviews call: its arguments, the pages
                    \* it fetched and the list it returned
    statistics,     \* the last dict returned by get_sentiment_statistics
    batch_call      \* the last analyze_batch call: its arguments, the texts it
                    \* handed to analyze_sentiment and how it ended

rlVars == <<now, max_rpm, max_tpm, request_times, token_counts, lock, pc,
            wakeAt, enteredAt, enteredOldest, outcome, waited, oldestAge, usage>>

\* ------------------------------------------------------------ RateLimiter

RECURSIVE SumTokens(_)
SumTokens(q) ==
    IF q = <<>> THEN 0 ELSE q[1][2] + SumTokens(Tail(q))

Max0(x) ==
    IF x > 0 THEN x ELSE 0

\* while self.request_times and self.request_times[0] < cutoff_time: popleft()
RECURSIVE PopOldRequests(_, _)
PopOldRequests(q, cutoff) ==
    IF q # <<>> /\ q[1] < cutoff THEN PopOldRequests(Tail(q), cutoff) ELSE q

\* while self.token_counts and self.token_counts[0][0] < cutoff_time: popleft()
RECURSIVE PopOldTokens(_, _)
PopOldTokens(q, cutoff) ==
    IF q # <<>> /\ q[1][1] < cutoff THEN PopOldTokens(Tail(q), cutoff) ELSE q

CutoffTime(t) ==
    t - Window

\* _clean_old_entries, on each deque
CleanRequests(q, t) ==
    PopOldRequests(q, CutoffTime(t))

CleanTokens(q, t) ==
    PopOldTokens(q, CutoffTime(t))

\* the wait counted from now instead of from the oldest request
WaitSeconds_fromNow(oldest, t) ==
    Window + (t - oldest)

\* (oldest_request + timedelta(minutes=1) - datetime.now()).total_seconds()
WaitSeconds(oldest, t) ==
    oldest + Window - t

\* the loop condition with > for >=
LimitReached_gt(q, rpm) ==
    Len(q) > rpm

\* the loop condition of wait_if_needed
LimitReached(q, rpm) ==
    Len(q) >= rpm

\* One pass of wait_if_needed over the pruned deque q at instant t: it
\* returns, raises IndexError on request_times[0] of an empty deque, sleeps
\* until `wake`, or goes round the loop without sleeping (each round prunes
\* nothing until the clock has moved past `wake`).
WaitDecision(q, rpm, t) ==
    IF ~LimitReached(q, rpm) THEN [kind |-> "return", wake |-> t]
    ELSE IF q = <<>> THEN [kind |-> "IndexError", wake |-> t]
    ELSE IF WaitSeconds(q[1], t) > 0
         THEN [kind |-> "sleep", wake |-> t + WaitSeconds(q[1], t) + Margin]
         ELSE [kind |-> "spin", wake |-> t]

\* The state of thread t after one pass of the loop of the call that got the
\* lock at instant `at`, when request_times[0] was `oldest` (-1: limit not
\* reached then).
WaitPass(t, q, at, oldest) ==
    LET d == WaitDecision(q, max_rpm, now) IN
    /\ request_times' = q
    /\ token_counts' = CleanTokens(token_counts, now)
    /\ IF d.kind \in {"return", "IndexError"}
       THEN /\ lock' = NoThread
            /\ pc' = [pc EXCEPT ![t] = IF d.kind = "return" THEN "gated" ELSE "idle"]
            /\ outcome' = [outcome EXCEPT ![t] = d.kind]
            /\ waited' = [waited EXCEPT ![t] = now - at]
            /\ oldestAge' = [oldestAge EXCEPT ![t] = IF oldest >= 0 THEN now - oldest ELSE -1]
            /\ wakeAt' = [wakeAt EXCEPT ![t] = 0]
            /\ enteredAt' = [enteredAt EXCEPT ![t] = 0]
            /\ enteredOldest' = [enteredOldest EXCEPT ![t] = -1]
       ELSE /\ lock' = t
            /\ pc' = [pc EXCEPT ![t] = IF d.kind = "sleep" THEN "sleeping" ELSE "spinning"]
            /\ outcome' = [outcome EXCEPT ![t] = "none"]
            /\ waited' = [waited EXCEPT ![t] = 0]
            /\ oldestAge' = [oldestAge EXCEPT ![t] = -1]
            /\ wakeAt' = [wakeAt EXCEPT ![t] = d.wake]
            /\ enteredAt' = [enteredAt EXCEPT ![t] = at]
            /\ enteredOldest' = [enteredOldest EXCEPT ![t] = oldest]

\* request_times[0] when the pruned deque q holds max_rpm entries or more
OldestIfLimited(q) ==
    IF Len(q) >= max_rpm /\ q # <<>> THEN q[1] ELSE -1

\* wait_if_needed: takes the lock, prunes, and runs the loop to its first
\* sleep or to its end.
WaitIfNeeded(t) ==
    /\ pc[t] = "idle"
    /\ lock = NoThread
    /\ WaitPass(t, CleanRequests(request_times, now), now,
                OldestIfLimited(CleanRequests(request_times, now)))
    /\ UNCHANGED <<now, max_rpm, max_tpm, usage>>

\* wait_if_needed after time.sleep, or going round the loop: prune, re-check.
WaitResume(t) ==
    /\ \/ pc[t] = "sleeping" /\ now >= wakeAt[t]
       \/ pc[t] = "spinning" /\ now > wakeAt[t]
    /\ lock = t
    /\ WaitPass(t, CleanRequests(request_times, now), enteredAt[t], enteredOldest[t])
    /\ UNCHANGED <<now, max_rpm, max_tpm, usage>>

\* A thread that passed wait_if_needed calls add_request.
CallAddRequest(t) ==
    /\ pc[t] = "gated"
    /\ pc' = [pc EXCEPT ![t] = "add_lock"]
    /\ outcome' = [outcome EXCEPT ![t] = "none"]
    /\ waited' = [waited EXCEPT ![t] = 0]
    /\ oldestAge' = [oldestAge EXCEPT ![t] = -1]
    /\ UNCHANGED <<now, max_rpm, max_tpm, request_times, token_counts, lock,
                   wakeAt, enteredAt, enteredOldest, usage>>

\* the body of add_request(tokens_used), under the lock
RecordRequest(q, t) ==
    Append(q, t)

RecordTokens(q, t, tokens_used) ==
    IF tokens_used > 0 THEN Append(q, <<t, tokens_used>>) ELSE q

AddRequest(t) ==
    /\ pc[t] = "add_lock"
    /\ lock = NoThread
    /\ \E tokens_used \in {0, MaxTokens} :
         /\ request_times' = RecordRequest(request_times, now)
         /\ token_counts' = RecordTokens(token_counts, now, tokens_used)
    /\ pc' = [pc EXCEPT ![t] = "idle"]
    /\ UNCHANGED <<now, max_rpm, max_tpm, lock, wakeAt, enteredAt,
                   enteredOldest, outcome, waited, oldestAge, usage>>

CallGetCurrentUsage(t) ==
    /\ pc[t] = "idle"
    /\ pc' = [pc EXCEPT ![t] = "usage_lock"]
    /\ outcome' = [outcome EXCEPT ![t] = "none"]
    /\ UNCHANGED <<now, max_rpm, max_tpm, request_times, token_counts, lock,
                   wakeAt, enteredAt, enteredOldest, waited, oldestAge, usage>>

\* a dict whose remaining values are plain differences
UsageOf_unclamped(q, tq, rpm, tpm) ==
    [requests_used |-> Len(q),
     requests_remaining |-> rpm - Len(q),
     tokens_used |-> SumTokens(tq),
     tokens_remaining |-> tpm - SumTokens(tq)]

\* the dict get_current_usage returns
UsageOf(q, tq, rpm, tpm) ==
    [requests_used |-> Len(q),
     requests_remaining |-> Max0(rpm - Len(q)),
     tokens_used |-> SumTokens(tq),
     tokens_remaining |-> Max0(tpm - SumTokens(tq))]

GetCurrentUsage(t) ==
    /\ pc[t] = "usage_lock"
    /\ lock = NoThread
    /\ request_times' = CleanRequests(request_times, now)
    /\ token_counts' = CleanTokens(token_counts, now)
    /\ usage' = UsageOf(request_times', token_counts', max_rpm, max_tpm)
    /\ pc' = [pc EXCEPT ![t] = "idle"]
    /\ UNCHANGED <<now, max_rpm, max_tpm, lock, wakeAt, enteredAt,
                   enteredOldest, outcome, waited, oldestAge>>

\* The clock advances; a sleep ends at its deadline and a thread going round
\* the loop without sleeping sees every instant.
Tick ==
    /\ now < MaxTime
    /\ \A t \in Threads : pc[t] = "sleeping" => now < wakeAt[t]
    /\ \A t \in Threads : pc[t] = "spinning" => now <= wakeAt[t]
    /\ now' = now + 1
    /\ UNCHANGED <<max_rpm, max_tpm, request_times, token_counts, lock, pc,
                   wakeAt, enteredAt, enteredOldest, outcome, waited, oldestAge, usage>>

\* -------------------------------------------------- GroqSentimentAnalyzer

anVars == <<review_text, content, exception, ret, remote_starts>>

dbVars == <<reviews, batch, inserted, written>>

stVars == <<products, product_seq, sentiment_analysis, op, product_data, results,
            sa_inserted, limit, unanalyzed>>

plVars == <<pl_pc, urls, url_idx, attempted, pending_reviews, run_log,
            last_run, ops, calls>>

scVars == <<listing, scrape_call, statistics, batch_call>>

vars == <<rlVars, anVars, dbVars, stVars, plVars, scVars>>

\* Strings are sequences of characters.
Whitespace == {" ", "\n"}

POSITIVE == <<"P", "O", "S", "I", "T", "I", "V", "E">>
NEGATIVE == <<"N", "E", "G", "A", "T", "I", "V", "E">>
NEUTRAL == <<"N", "E", "U", "T", "R", "A", "L">>

\* Config.SENTIMENT_LABELS
SENTIMENT_LABELS == {POSITIVE, NEGATIVE, NEUTRAL}

\* str.strip()
RECURSIVE LStrip(_)
LStrip(str) ==
    IF str # <<>> /\ str[1] \in Whitespace THEN LStrip(Tail(str)) ELSE str

RECURSIVE RStrip(_)
RStrip(str) ==
    IF str # <<>> /\ str[Len(str)] \in Whitespace
    THEN RStrip(SubSeq(str, 1, Len(str) - 1))
    ELSE str

Strip(str) ==
    RStrip(LStrip(str))

\* str.upper(), on the letters the replies use
UpperChar(c) ==
    CASE c = "p" -> "P" [] c = "o" -> "O" [] c = "s" -> "S" [] c = "i" -> "I"
      [] c = "t" -> "T" [] c = "v" -> "V" [] c = "e" -> "E" [] c = "n" -> "N"
      [] c = "g" -> "G" [] c = "a" -> "A" [] c = "u" -> "U" [] c = "r" -> "R"
      [] c = "l" -> "L" [] c = "m" -> "M" [] c = "x" -> "X" [] c = "d" -> "D"
      [] OTHER -> c

Upper(str) ==
    [i \in DOMAIN str |-> UpperChar(str[i])]

\* review_text None
NoneText == <<"None">>

\* the test without the length check
IsTooShort_emptyOnly(text) ==
    \/ text = NoneText
    \/ text = <<>>

\* not review_text or len(review_text.strip()) < 10
IsTooShort(text) ==
    \/ text = NoneText
    \/ text = <<>>
    \/ Len(Strip(text)) < MinReviewLength

\* the dict returned for a short review
TooShortResult ==
    [sentiment |-> NEUTRAL, confidence |-> 0, error |-> "Review too short"]

\* the dict returned by the except branch
ErrorResult(e) ==
    [sentiment |-> NEUTRAL, confidence |-> 0, error |-> e]

\* the dict returned on success (confidence 0.95, in hundredths)
SuccessResult(sentiment, response_time, tokens_used, timestamp) ==
    [sentiment |-> sentiment, confidence |-> 95, response_time |-> response_time,
     tokens_used |-> tokens_used, timestamp |-> timestamp]

NoValue == [pending |-> TRUE]

\* a return statement of analyze_sentiment
Returned(value) ==
    [raised |-> "none", value |-> value]

\* an except branch that logs and raises again
OnException_reraise(e) ==
    [raised |-> e, value |-> NoValue]

\* except Exception as e: return {...}
OnException(e) ==
    Returned(ErrorResult(e))

\* sentiment = response.choices[0].message.content.strip().upper()
ExtractSentiment(reply_content) ==
    Upper(Strip(reply_content))

\* the label passed on without the check
ValidateSentiment_unchecked(sentiment) ==
    sentiment

\* if sentiment not in Config.SENTIMENT_LABELS: sentiment = "NEUTRAL"
ValidateSentiment(sentiment) ==
    IF sentiment \notin SENTIMENT_LABELS THEN NEUTRAL ELSE sentiment

\* tokens_used = response.usage.total_tokens if response.usage else 100
NoUsageField == -1

TokensUsed(reply_usage) ==
    IF reply_usage # NoUsageField THEN reply_usage ELSE DefaultTokens

Spaces(n) ==
    [i \in 1..n |-> " "]

Letters(n) ==
    [i \in 1..n |-> "x"]

\* The review texts: None, and letters between leading and trailing blanks.
BodyLengths == {0, 4, MinReviewLength - 1, MinReviewLength}

Texts ==
    {NoneText} \cup
    {Spaces(a) \o Letters(b) \o Spaces(a) : a \in 0..MaxPad, b \in BodyLengths}

\* What the remote service answers: a completion with its content and usage,
\* or an error raised by the client.
NoContent == <<"none">>

lower_positive == <<"p", "o", "s", "i", "t", "i", "v", "e">>
padded_negative == <<" ", "N", "e", "g", "a", "t", "i", "v", "e", "\n">>
MIXED == <<"M", "I", "X", "E", "D">>
POSITIVE_DOT == <<"P", "O", "S", "I", "T", "I", "V", "E", ".">>

\* <<content, usage.total_tokens>> of the completions (usage may be absent)
Replies ==
    {<<POSITIVE, MaxTokens>>, <<NEGATIVE, 0>>, <<NEUTRAL, NoUsageField>>,
     <<lower_positive, MaxTokens>>, <<padded_negative, MaxTokens>>,
     <<MIXED, MaxTokens>>, <<POSITIVE_DOT, 0>>, <<<<>>, NoUsageField>>}

RemoteErrors ==
    {"APITimeoutError", "AuthenticationError", "IndexError", "AttributeError"}

NoException == "none"

\* analyze_sentiment(review_text), up to its return or to the first sleep of
\* wait_if_needed.
AnalyzeSentiment(text) ==
    /\ pc[Main] = "idle"
    /\ Len(remote_starts) < MaxCalls
    /\ review_text' = text
    /\ content' = NoContent
    /\ UNCHANGED remote_starts
    /\ IF IsTooShort(text)
       THEN /\ ret' = Returned(TooShortResult)
            /\ exception' = NoException
            /\ UNCHANGED rlVars
       ELSE /\ lock = NoThread
            /\ WaitPass(Main, CleanRequests(request_times, now), now,
                        OldestIfLimited(CleanRequests(request_times, now)))
            /\ UNCHANGED <<now, max_rpm, max_tpm, usage>>
            /\ exception' = IF outcome'[Main] = "IndexError" THEN "IndexError" ELSE NoException
            /\ ret' = IF outcome'[Main] = "IndexError"
                      THEN OnException("IndexError")
                      ELSE Returned(NoValue)

\* analyze_sentiment continues inside wait_if_needed after a sleep.
AnalyzeResume ==
    /\ WaitResume(Main)
    /\ exception' = IF outcome'[Main] = "IndexError" THEN "IndexError" ELSE NoException
    /\ ret' = IF outcome'[Main] = "IndexError"
              THEN OnException("IndexError")
              ELSE ret
    /\ UNCHANGED <<review_text, content, remote_starts>>

\* analyze_sentiment, past wait_if_needed, starts the remote call.
StartRemoteCall ==
    /\ pc[Main] = "gated"
    /\ pc' = [pc EXCEPT ![Main] = "calling"]
    /\ remote_starts' = Append(SelectSeq(remote_starts, LAMBDA s : s > now - Window), now)
    /\ enteredAt' = [enteredAt EXCEPT ![Main] = now]
    /\ outcome' = [outcome EXCEPT ![Main] = "none"]
    /\ waited' = [waited EXCEPT ![Main] = 0]
    /\ oldestAge' = [oldestAge EXCEPT ![Main] = -1]
    /\ UNCHANGED <<now, max_rpm, max_tpm, request_times, token_counts, lock,
                   wakeAt, enteredOldest, usage>>
    /\ UNCHANGED <<review_text, content, exception, ret>>

\* The remote call returns a completion: validate its label, record the
\* request, return the result.
RemoteCompletes(reply_content, reply_usage) ==
    /\ pc[Main] = "calling"
    /\ content' = reply_content
    /\ exception' = NoException
    /\ request_times' = RecordRequest(request_times, now)
    /\ token_counts' = RecordTokens(token_counts, now, TokensUsed(reply_usage))
    /\ ret' = Returned(SuccessResult(ValidateSentiment(ExtractSentiment(reply_content)),
                                     now - enteredAt[Main], TokensUsed(reply_usage), now))
    /\ pc' = [pc EXCEPT ![Main] = "idle"]
    /\ enteredAt' = [enteredAt EXCEPT ![Main] = 0]
    /\ UNCHANGED <<now, max_rpm, max_tpm, lock, wakeAt, enteredOldest,
                   outcome, waited, oldestAge, usage>>
    /\ UNCHANGED <<review_text, remote_starts>>

\* The remote call, or reading its response, raises: nothing is recorded.
RemoteFails(e) ==
    /\ pc[Main] = "calling"
    /\ content' = NoContent
    /\ exception' = e
    /\ ret' = OnException(e)
    /\ pc' = [pc EXCEPT ![Main] = "idle"]
    /\ enteredAt' = [enteredAt EXCEPT ![Main] = 0]
    /\ UNCHANGED <<now, max_rpm, max_tpm, request_times, token_counts, lock,
                   wakeAt, enteredOldest, outcome, waited, oldestAge, usage>>
    /\ UNCHANGED <<review_text, remote_starts>>

\* -------------------------------------------------------- DatabaseManager

\* SQL NULL, a key a dict does not have, and a value sqlite3 cannot bind
NULL == "<NULL>"
Missing == "<missing>"
Unbindable == "<list>"

\* dict.get(key) and dict.get(key, default)
Get(d, key) ==
    IF d[key] = Missing THEN NULL ELSE d[key]

GetOr(d, key, default) ==
    IF d[key] = Missing THEN default ELSE d[key]

\* _parse_float: float(value) if value else None, None when float() raises
ParseFloat(value) ==
    CASE value \in {"", NULL} -> NULL
      [] value = "5" -> "5.0"
      [] value = "4.5" -> "4.5"
      [] OTHER -> NULL

\* the parameters insert_reviews binds for one review
ReviewParams(review) ==
    [product_asin |-> Get(review, "product_asin"),
     review_id |-> Get(review, "review_id"),
     reviewer_name |-> Get(review, "reviewer_name"),
     rating |-> ParseFloat(GetOr(review, "rating", "")),
     title |-> Get(review, "title"),
     text |-> Get(review, "text"),
     date |-> Get(review, "date"),
     verified_purchase |-> GetOr(review, "verified_purchase", "False"),
     helpful_count |-> GetOr(review, "helpful_count", "0"),
     scraped_at |-> Get(review, "scraped_at")]

\* cursor.execute raises when a parameter cannot be bound
BindFails(params) ==
    \E k \in DOMAIN params : params[k] = Unbindable

\* a table with no UNIQUE constraint on review_id
ReviewIdTaken_noConstraint(rows, review_id) ==
    FALSE

\* review_id TEXT UNIQUE: a row with this review_id exists (NULLs never clash)
ReviewIdTaken(rows, review_id) ==
    /\ review_id # NULL
    /\ \E i \in DOMAIN rows : rows[i].review_id = review_id

\* the row of a taken review_id replaced by the new parameters
ReplaceReview(rows, params) ==
    [i \in DOMAIN rows |->
        IF rows[i].review_id = params.review_id THEN params ELSE rows[i]]

\* a loop of INSERT OR REPLACE statements
RECURSIVE InsertReviewsFrom_replace(_, _, _)
InsertReviewsFrom_replace(st, revs, i) ==
    IF i > Len(revs) THEN st
    ELSE LET params == ReviewParams(revs[i]) IN
         IF BindFails(params)
         THEN InsertReviewsFrom_replace(st, revs, i + 1)
         ELSE IF ReviewIdTaken(st.rows, params.review_id)
         THEN InsertReviewsFrom_replace(
                  [st EXCEPT !.rows = ReplaceReview(@, params),
                             !.done = @ \cup {params.review_id}],
                  revs, i + 1)
         ELSE InsertReviewsFrom_replace(
                  [rows |-> Append(st.rows, params),
                   count |-> st.count + 1,
                   done |-> st.done \cup {params.review_id}],
                  revs, i + 1)

\* The loop of insert_reviews over the reviews from position i on: st holds
\* the table, the count of rows inserted and the ids whose INSERT OR IGNORE
\* was executed.
RECURSIVE InsertReviewsFrom(_, _, _)
InsertReviewsFrom(st, revs, i) ==
    IF i > Len(revs) THEN st
    ELSE LET params == ReviewParams(revs[i]) IN
         IF BindFails(params)
         THEN InsertReviewsFrom(st, revs, i + 1)
         ELSE IF ReviewIdTaken(st.rows, params.review_id)
         THEN InsertReviewsFrom([st EXCEPT !.done = @ \cup {params.review_id}],
                                revs, i + 1)
         ELSE InsertReviewsFrom(
                  [rows |-> Append(st.rows, params),
                   count |-> st.count + 1,
                   done |-> st.done \cup {params.review_id}],
                  revs, i + 1)

\* The review dicts handed to insert_reviews.
ReviewA ==
    [product_asin |-> "P1", review_id |-> "R1", reviewer_name |-> "ann",
     rating |-> "5", title |-> "good", text |-> "great phone", date |-> "d1",
     verified_purchase |-> "True", helpful_count |-> "2", scraped_at |-> "s1"]

\* the same id as ReviewA, every other field different
ReviewA2 ==
    [product_asin |-> "P2", review_id |-> "R1", reviewer_name |-> "bob",
     rating |-> "five", title |-> "bad", text |-> "", date |-> "d2",
     verified_purchase |-> Missing, helpful_count |-> Missing, scraped_at |-> "s2"]

ReviewB ==
    [product_asin |-> "P1", review_id |-> "R2", reviewer_name |-> "cid",
     rating |-> "4.5", title |-> "ok", text |-> Missing, date |-> "d1",
     verified_purchase |-> "False", helpful_count |-> "0", scraped_at |-> "s1"]

\* the id AmazonScraper._parse_review leaves when the block has none
ReviewEmptyId ==
    [ReviewB EXCEPT !.review_id = "", !.text = "fine"]

ReviewNoId ==
    [ReviewB EXCEPT !.review_id = Missing, !.text = "fine"]

ReviewUnbindable ==
    [ReviewB EXCEPT !.title = Unbindable]

ReviewDicts ==
    {ReviewA, ReviewA2, ReviewB, ReviewEmptyId, ReviewNoId, ReviewUnbindable}

ReviewLists ==
    UNION {[1..n -> ReviewDicts] : n \in 0..MaxBatch}

\* insert_reviews(revs)
InsertReviews(revs) ==
    /\ Len(reviews) + Len(revs) <= MaxRows
    /\ LET st == InsertReviewsFrom([rows |-> reviews, count |-> 0, done |-> {}], revs, 1) IN
         /\ reviews' = st.rows
         /\ inserted' = st.count
         /\ written' = written \cup st.done
    /\ batch' = revs

\* ------------------------------------------------- DatabaseManager: products

\* _parse_price: None when empty, the float of the text without currency
\* signs and commas, None when float() raises
ParsePrice(price_str) ==
    CASE price_str \in {"", NULL} -> NULL
      [] price_str = "1299" -> "1299.0"
      [] price_str = "Rs1,299" -> "1299.0"
      [] price_str = "999" -> "999.0"
      [] OTHER -> NULL

\* _parse_int: the int of the text without commas, None when it is empty or
\* int() raises
ParseInt(value) ==
    CASE value = "" -> NULL
      [] value = "12" -> "12"
      [] value = "1,024" -> "1024"
      [] OTHER -> NULL

\* the parameters insert_product binds, updated_at being datetime.now()
ProductParams(data, t) ==
    [product_asin |-> Get(data, "Product_ASIN"),
     product_name |-> Get(data, "Product_Name"),
     brand |-> Get(data, "Brand"),
     price |-> ParsePrice(GetOr(data, "Price", "")),
     mrp |-> ParsePrice(GetOr(data, "MRP", "")),
     discount |-> Get(data, "Discount"),
     stock_status |-> Get(data, "Stock_Status"),
     rating |-> ParseFloat(GetOr(data, "Rating", "")),
     review_count |-> ParseInt(GetOr(data, "Reviews", "")),
     seller |-> Get(data, "Seller"),
     product_link |-> Get(data, "Product_Link"),
     reviews_link |-> Get(data, "Reviews_Link"),
     scraped_at |-> Get(data, "Scraped_At"),
     updated_at |-> t]

\* product_asin TEXT UNIQUE: the row clashes with the new one (NULLs never do)
ProductClash(row, params) ==
    /\ params.product_asin # NULL
    /\ row.product_asin = params.product_asin

\* the row an INSERT makes of the parameters: id INTEGER PRIMARY KEY
\* AUTOINCREMENT, created_at DEFAULT CURRENT_TIMESTAMP
ProductRow(params, id, t) ==
    [k \in DOMAIN params \cup {"id", "created_at"} |->
        IF k = "id" THEN id ELSE IF k = "created_at" THEN t ELSE params[k]]

\* INSERT OR IGNORE: the row stored first is kept
UpsertProduct_keepFirst(rows, params, id, t) ==
    IF \E i \in DOMAIN rows : ProductClash(rows[i], params)
    THEN rows
    ELSE Append(rows, ProductRow(params, id, t))

\* a table emptied before the new row is added
UpsertProduct_emptied(rows, params, id, t) ==
    <<ProductRow(params, id, t)>>

\* INSERT OR REPLACE: the clashing row is deleted and the new row is added,
\* with a new rowid and the column defaults
UpsertProduct(rows, params, id, t) ==
    Append(SelectSeq(rows, LAMBDA row : ~ProductClash(row, params)),
           ProductRow(params, id, t))

\* The dicts handed to insert_product, as AmazonScraper.scrape_product builds
\* them.
ProductP1 ==
    [Product_Name |-> "phone", Product_ASIN |-> "P1", Brand |-> "acme",
     Price |-> "1299", MRP |-> "Rs1,299", Discount |-> "-10%",
     Stock_Status |-> "In Stock", Rating |-> "4.5", Reviews |-> "1,024",
     Seller |-> "shop", Product_Link |-> "U1", Reviews_Link |-> "L1",
     Scraped_At |-> "s1"]

\* the same id as ProductP1, every other field different or absent
ProductP1b ==
    [Product_Name |-> "", Product_ASIN |-> "P1", Brand |-> Missing,
     Price |-> "", MRP |-> "n/a", Discount |-> Missing,
     Stock_Status |-> "Out of Stock", Rating |-> "", Reviews |-> "many",
     Seller |-> Missing, Product_Link |-> "U1b", Reviews_Link |-> Missing,
     Scraped_At |-> "s2"]

ProductP2 ==
    [ProductP1 EXCEPT !.Product_ASIN = "P2", !.Price = "999", !.Reviews = "12",
                      !.Product_Link = "U2", !.Reviews_Link = "L2"]

\* the dict {} scrape_product returns when the page cannot be fetched
EmptyProduct ==
    [k \in DOMAIN ProductP1 |-> Missing]

ProductDicts ==
    {ProductP1, ProductP1b, ProductP2}

\* insert_product(data), which returns cursor.lastrowid
InsertProduct(data) ==
    /\ product_seq < MaxProductWrites
    /\ products' = UpsertProduct(products, ProductParams(data, now),
                                 product_seq + 1, now)
    /\ product_seq' = product_seq + 1
    /\ op' = "insert_product"
    /\ product_data' = data
    /\ results' = <<>>
    /\ sa_inserted' = 0
    /\ limit' = 0
    /\ unanalyzed' = <<>>
    /\ UNCHANGED sentiment_analysis

\* --------------------------------------- DatabaseManager: sentiment_analysis

\* SQL NULL in a numeric column
NullNumber == -1

\* result.get(key) on the dicts analyze_sentiment returns
ResultGet(result, key, null) ==
    IF key \in DOMAIN result THEN result[key] ELSE null

\* the parameters insert_sentiment_results binds for one result
SentimentParams(result) ==
    [review_id |-> ResultGet(result, "review_id", NULL),
     sentiment |-> ResultGet(result, "sentiment", <<>>),
     confidence |-> ResultGet(result, "confidence", NullNumber),
     response_time |-> ResultGet(result, "response_time", NullNumber),
     tokens_used |-> ResultGet(result, "tokens_used", NullNumber),
     analyzed_at |-> ResultGet(result, "timestamp", NullNumber),
     error |-> ResultGet(result, "error", NULL)]

\* cursor.execute raises when a parameter cannot be bound
SentimentBindFails(params) ==
    \/ params.review_id = Unbindable
    \/ params.error = Unbindable

\* a loop that leaves at the first result that cannot be written
RECURSIVE InsertSentimentResultsFrom_abort(_, _, _)
InsertSentimentResultsFrom_abort(st, res, i) ==
    IF i > Len(res) THEN st
    ELSE LET params == SentimentParams(res[i]) IN
         IF SentimentBindFails(params)
         THEN st
         ELSE InsertSentimentResultsFrom_abort(
                  [rows |-> Append(st.rows, params), count |-> st.count + 1],
                  res, i + 1)

\* The loop of insert_sentiment_results over the results from position i on:
\* st holds the table and the count of rows inserted.
RECURSIVE InsertSentimentResultsFrom(_, _, _)
InsertSentimentResultsFrom(st, res, i) ==
    IF i > Len(res) THEN st
    ELSE LET params == SentimentParams(res[i]) IN
         IF SentimentBindFails(params)
         THEN InsertSentimentResultsFrom(st, res, i + 1)
         ELSE InsertSentimentResultsFrom(
                  [rows |-> Append(st.rows, params), count |-> st.count + 1],
                  res, i + 1)

\* a result left without the id of its review
WithReviewId_forgotten(result, review_id) ==
    result

\* result['review_id'] = review['review_id']
WithReviewId(result, review_id) ==
    [k \in DOMAIN result \cup {"review_id"} |->
        IF k = "review_id" THEN review_id ELSE result[k]]

\* The result dicts handed to insert_sentiment_results.
ResultR1 ==
    WithReviewId(TooShortResult, "R1")

ResultR2 ==
    WithReviewId(SuccessResult(POSITIVE, 1, DefaultTokens, 0), "R2")

ResultEmptyId ==
    WithReviewId(ErrorResult("APITimeoutError"), "")

\* a result nobody gave a review_id
ResultNoId ==
    ErrorResult("APITimeoutError")

ResultUnbindable ==
    [ResultR1 EXCEPT !.error = Unbindable]

ResultDicts ==
    {ResultR1, ResultR2, ResultEmptyId, ResultNoId, ResultUnbindable}

ResultLists ==
    UNION {[1..n -> ResultDicts] : n \in 0..MaxBatch}

\* the results of res that can be written, in order
Writable(res) ==
    SelectSeq(res, LAMBDA result : ~SentimentBindFails(SentimentParams(result)))

\* insert_sentiment_results(res)
InsertSentimentResults(res) ==
    /\ Len(sentiment_analysis) + Len(Writable(res)) <= MaxSentiments
    /\ LET st == InsertSentimentResultsFrom(
                     [rows |-> sentiment_analysis, count |-> 0], res, 1) IN
         /\ sentiment_analysis' = st.rows
         /\ sa_inserted' = st.count
    /\ op' = "insert_sentiment_results"
    /\ results' = res
    /\ product_data' = EmptyProduct
    /\ limit' = 0
    /\ unanalyzed' = <<>>
    /\ UNCHANGED <<products, product_seq>>

\* ------------------------------------ DatabaseManager: get_unanalyzed_reviews

\* a join that matches no row
HasSentimentRow_never(sa_rows, review_id) ==
    FALSE

\* a join that leaves out the rows of failed classifications
HasSentimentRow_successOnly(sa_rows, review_id) ==
    /\ review_id # NULL
    /\ \E j \in DOMAIN sa_rows :
           sa_rows[j].review_id = review_id /\ sa_rows[j].error = NULL

\* LEFT JOIN sentiment_analysis sa ON r.review_id = sa.review_id finds a row
\* (a NULL equals nothing)
HasSentimentRow(sa_rows, review_id) ==
    /\ review_id # NULL
    /\ \E j \in DOMAIN sa_rows : sa_rows[j].review_id = review_id

\* r.text IS NOT NULL AND r.text != ''
HasText(row) ==
    /\ row.text # NULL
    /\ row.text # ""

\* the positions of the reviews rows the WHERE clause keeps
Eligible(review_rows, sa_rows) ==
    {i \in DOMAIN review_rows :
        /\ ~HasSentimentRow(sa_rows, review_rows[i].review_id)
        /\ HasText(review_rows[i])}

\* a LIMIT that stops one row early
LimitCount_oneLess(n, lim) ==
    IF lim < 0 THEN n ELSE IF n < lim THEN Max0(n - 1) ELSE Max0(lim - 1)

\* LIMIT ?: of n rows, how many are returned; a negative LIMIT is no limit
LimitCount(n, lim) ==
    IF lim < 0 THEN n ELSE IF n < lim THEN n ELSE lim

\* SELECT r.review_id, r.text, r.product_asin
SelectedColumns(row) ==
    [review_id |-> row.review_id, text |-> row.text,
     product_asin |-> row.product_asin]

\* the rows at the positions in chosen, from position i on
RECURSIVE PickRows(_, _, _)
PickRows(rows, chosen, i) ==
    IF i > Len(rows) THEN <<>>
    ELSE (IF i \in chosen THEN <<SelectedColumns(rows[i])>> ELSE <<>>)
             \o PickRows(rows, chosen, i + 1)

\* what get_unanalyzed_reviews(lim) may return: the query has no ORDER BY, so
\* which of the kept rows fall under the LIMIT is the store's choice
UnanalyzedResults(review_rows, sa_rows, lim) ==
    LET kept == Eligible(review_rows, sa_rows) IN
    {PickRows(review_rows, chosen, 1) :
        chosen \in {c \in SUBSET kept :
                       Cardinality(c) = LimitCount(Cardinality(kept), lim)}}

Limits == -1..MaxLimit

\* get_unanalyzed_reviews(lim)
GetUnanalyzedReviews(lim) ==
    /\ \E rows \in UnanalyzedResults(reviews, sentiment_analysis, lim) :
           unanalyzed' = rows
    /\ limit' = lim
    /\ op' = "get_unanalyzed_reviews"
    /\ product_data' = EmptyProduct
    /\ results' = <<>>
    /\ sa_inserted' = 0
    /\ UNCHANGED <<products, product_seq, sentiment_analysis>>

\* ------------------------------------- DatabaseManager: statistics

\* float(value) of a stored rating, in tenths
RatingTenths(rating) ==
    CASE rating = "5.0" -> 50
      [] rating = "4.5" -> 45
      [] OTHER -> 0

RECURSIVE SumRatings(_, _)
SumRatings(review_rows, i) ==
    IF i > Len(review_rows) THEN 0
    ELSE RatingTenths(review_rows[i].rating) + SumRatings(review_rows, i + 1)

\* COUNT(DISTINCT product_asin) FROM reviews: NULLs are not counted
TotalProducts(product_rows, review_rows) ==
    Cardinality({review_rows[i].product_asin : i \in DOMAIN review_rows}
                    \ {NULL})

\* SELECT COUNT(*), COUNT(DISTINCT product_asin), AVG(rating) FROM reviews;
\* AVG as the sum and the number of the ratings that are not NULL
OverallStats(product_rows, review_rows) ==
    [total_reviews |-> Len(review_rows),
     total_products |-> TotalProducts(product_rows, review_rows),
     avg_rating |->
        [sum |-> SumRatings(review_rows, 1),
         n |-> Cardinality({i \in DOMAIN review_rows :
                               review_rows[i].rating # NULL})]]

\* SELECT sentiment, COUNT(*) ... WHERE sentiment IN (...) GROUP BY sentiment
SentimentDistribution(sa_rows) ==
    LET present == {l \in SENTIMENT_LABELS :
                       \E i \in DOMAIN sa_rows : sa_rows[i].sentiment = l}
    IN  [l \in present |->
            Cardinality({i \in DOMAIN sa_rows : sa_rows[i].sentiment = l})]

\* the rows of sentiment_analysis JOIN reviews JOIN products with a label,
\* for one product
JoinedRows(p, review_rows, sa_rows, l) ==
    {<<i, j>> \in (DOMAIN sa_rows) \X (DOMAIN review_rows) :
        /\ sa_rows[i].review_id # NULL
        /\ sa_rows[i].review_id = review_rows[j].review_id
        /\ review_rows[j].product_asin # NULL
        /\ review_rows[j].product_asin = p.product_asin
        /\ sa_rows[i].sentiment = l}

\* ... GROUP BY p.product_asin, sa.sentiment, in no stated order
ProductSentiment(product_rows, review_rows, sa_rows) ==
    {[product_name |-> product_rows[g[1]].product_name,
      brand |-> product_rows[g[1]].brand,
      sentiment |-> g[2],
      count |-> Cardinality(JoinedRows(product_rows[g[1]], review_rows,
                                       sa_rows, g[2]))] :
        g \in {h \in (DOMAIN product_rows) \X SENTIMENT_LABELS :
                  JoinedRows(product_rows[h[1]], review_rows, sa_rows, h[2])
                      # {}}}

NoStatistics ==
    [valid |-> FALSE]

\* get_sentiment_statistics()
GetSentimentStatistics ==
    /\ statistics' =
           [valid |-> TRUE,
            overall |-> OverallStats(products, reviews),
            sentiment_distribution |-> SentimentDistribution(sentiment_analysis),
            product_sentiment |->
                ProductSentiment(products, reviews, sentiment_analysis)]
    /\ op' = "get_sentiment_statistics"
    /\ product_data' = EmptyProduct
    /\ results' = <<>>
    /\ sa_inserted' = 0
    /\ limit' = 0
    /\ unanalyzed' = <<>>
    /\ UNCHANGED <<products, product_seq, sentiment_analysis>>

\* ---------------------------------------------------------------- scrapers

\* BaseScraper._get_page, which raises whatever the fetch raises
GetPage_raises(fetched) ==
    IF fetched THEN "soup" ELSE "raise"

\* BaseScraper._get_page: the parsed page, None when the fetch fails
GetPage(fetched) ==
    IF fetched THEN "soup" ELSE "None"

\* re.search(r'/dp/([A-Z0-9]{10})', product_url) on the URLs of the runs
AsinOf(url) ==
    CASE url = "U1" -> "P1"
      [] url = "U2" -> "P2"
      [] OTHER -> ""

\* what the product page of a URL shows
PageProduct(url) ==
    CASE url = "U1" -> ProductP1
      [] url = "U2" -> ProductP2
      [] OTHER -> [ProductP1 EXCEPT !.Product_ASIN = "", !.Product_Link = url,
                                    !.Reviews_Link = ""]

\* AmazonScraper.scrape_product: {} when the page cannot be fetched
ScrapeProduct(url, soup) ==
    CASE soup = "raise" -> [EmptyProduct EXCEPT !.Product_Link = "raise"]
      [] soup = "None" -> EmptyProduct
      [] OTHER -> PageProduct(url)

\* The review dicts AmazonScraper._parse_review builds: a block without id
\* leaves review_id "", one without body leaves text "".
ScrapedNoId ==
    [ReviewA EXCEPT !.review_id = "", !.text = "fine", !.reviewer_name = "dee"]

\* helpful_count too large an int for SQLite to bind
ScrapedHuge ==
    [ReviewA EXCEPT !.review_id = "R3", !.helpful_count = Unbindable]

ScrapedNoBody ==
    [ReviewA EXCEPT !.product_asin = "P2", !.review_id = "R2", !.text = ""]

\* the review pages of a product; the pages after them hold no review
ReviewPages(asin) ==
    CASE asin = "P1" -> <<<<ReviewA>>, <<ScrapedNoId, ScrapedHuge>>>>
      [] asin = "P2" -> <<<<ScrapedNoBody>>>>
      [] OTHER -> <<>>

\* The loop of AmazonScraper.scrape_reviews from a page on: it ends after
\* max_pages, at the page that cannot be fetched (the pages up to fetched
\* can) and at the page without reviews.
RECURSIVE ScrapePagesFrom(_, _, _, _, _)
ScrapePagesFrom(pages, page, max_pages, fetched, scraped) ==
    IF page > max_pages THEN scraped
    ELSE IF GetPage(page <= fetched) = "None" THEN scraped
    ELSE IF page > Len(pages) \/ pages[page] = <<>> THEN scraped
    ELSE ScrapePagesFrom(pages, page + 1, max_pages, fetched,
                         scraped \o pages[page])

\* AmazonScraper.scrape_reviews(product_url, max_pages)
ScrapeReviews(url, max_pages, fetched) ==
    ScrapePagesFrom(ReviewPages(AsinOf(url)), 1, max_pages, fetched, <<>>)

\* the page numbers the loop of AmazonScraper.scrape_reviews hands to
\* _get_page, from a page on
RECURSIVE FetchedPagesFrom(_, _, _, _, _)
FetchedPagesFrom(pages, page, max_pages, fetched, log) ==
    IF page > max_pages THEN log
    ELSE IF GetPage(page <= fetched) = "None" THEN Append(log, page)
    ELSE IF page > Len(pages) \/ pages[page] = <<>> THEN Append(log, page)
    ELSE FetchedPagesFrom(pages, page + 1, max_pages, fetched,
                          Append(log, page))

\* a '/dp/' URL without ASIN makes scrape_reviews return before any fetch
AmazonFetches(url, max_pages, fetched) ==
    IF AsinOf(url) = "" THEN <<>>
    ELSE FetchedPagesFrom(ReviewPages(AsinOf(url)), 1, max_pages, fetched, <<>>)

NoScrape ==
    [source |-> "none", url |-> "", max_pages |-> 0, fetched |-> 0,
     pages |-> <<>>, reviews |-> <<>>]

\* AmazonScraper.scrape_reviews(url, max_pages) called by itself; the review
\* pages up to fetched can be fetched
AmazonScrapeReviews(url, max_pages, fetched) ==
    /\ scrape_call' = [source |-> "amazon", url |-> url,
                       max_pages |-> max_pages, fetched |-> fetched,
                       pages |-> AmazonFetches(url, max_pages, fetched),
                       reviews |-> ScrapeReviews(url, max_pages, fetched)]
    /\ UNCHANGED <<listing, statistics, batch_call>>

\* re.search(r'/p/([^?]+)', product_url), "unknown" without a match
FlipkartProductId(url) ==
    IF url = "F1" THEN "itm1" ELSE "unknown"

\* f"flipkart_{product_id}_review_{idx}"
FlipkartReviewId(product_id, idx) ==
    "flipkart_" \o product_id \o "_review_" \o ToString(idx)

\* FlipkartScraper._parse_review(review_div, product_id, idx)
FlipkartParseReview(review_div, product_id, idx) ==
    [product_asin |-> product_id,
     review_id |-> FlipkartReviewId(product_id, idx),
     reviewer_name |-> review_div.reviewer_name, rating |-> "", title |-> "",
     text |-> review_div.text, date |-> "", verified_purchase |-> "False",
     helpful_count |-> "0", scraped_at |-> "s1"]

\* review_divs[:max_pages * 10]
ReviewsPerPage == 10

\* seq[:n] of Python
SliceTo(seq, n) ==
    IF n >= Len(seq) THEN seq
    ELSE IF n >= 0 THEN SubSeq(seq, 1, n)
    ELSE SubSeq(seq, 1, Max0(Len(seq) + n))

\* FlipkartScraper.scrape_reviews(url, max_pages): one fetch, of the product
\* page, whatever max_pages is
FlipkartReviews(url, max_pages, fetched, review_divs) ==
    IF GetPage(fetched >= 1) = "None" THEN <<>>
    ELSE LET kept == SliceTo(review_divs, max_pages * ReviewsPerPage) IN
         [i \in DOMAIN kept |->
             FlipkartParseReview(kept[i], FlipkartProductId(url), i - 1)]

FlipkartScrapeReviews(url, max_pages, fetched) ==
    /\ scrape_call' = [source |-> "flipkart", url |-> url,
                       max_pages |-> max_pages, fetched |-> fetched,
                       pages |-> <<1>>,
                       reviews |-> FlipkartReviews(url, max_pages, fetched,
                                                   listing)]
    /\ UNCHANGED <<listing, statistics, batch_call>>

\* the review blocks customers post
ReviewBlocks ==
    {[reviewer_name |-> "eve", text |-> "nice battery"],
     [reviewer_name |-> "fay", text |-> "poor screen!"]}

\* A customer posts a review: Flipkart shows it above the older ones.
PostReview(review_div) ==
    /\ Len(listing) < MaxListing
    /\ \A i \in DOMAIN listing : listing[i] # review_div
    /\ listing' = <<review_div>> \o listing
    /\ UNCHANGED <<scrape_call, statistics, batch_call>>

\* ------------------------------------------------------------ run_pipeline

\* the texts of the scraped reviews, as sequences of characters
Chars(text) ==
    CASE text = "great phone" ->
             <<"g", "r", "e", "a", "t", " ", "p", "h", "o", "n", "e">>
      [] text = "fine" -> <<"f", "i", "n", "e">>
      [] OTHER -> <<>>

\* How the remote call of an analyze_sentiment ends.
ClassifierOutcomes == {"positive", "APITimeoutError"}

\* analyzer.analyze_sentiment(text), its waits in the RateLimiter left out
Classify(text, classifier) ==
    IF IsTooShort(Chars(text)) THEN TooShortResult
    ELSE IF classifier \in RemoteErrors THEN OnException(classifier).value
    ELSE SuccessResult(ValidateSentiment(ExtractSentiment(lower_positive)),
                       1, TokensUsed(NoUsageField), now)

\* a loop over the reviews that were not stored before
ToClassify_newOnly(fetched_reviews, newly_inserted) ==
    IF newly_inserted = 0 THEN <<>> ELSE fetched_reviews

\* for i, review in enumerate(reviews, 1): every review of the list
ToClassify(fetched_reviews, newly_inserted) ==
    fetched_reviews

\* the loops of lines 56-61 and 114-119: one result per review, with its id
AnalyzeAll(revs, classifier) ==
    [i \in DOMAIN revs |->
        WithReviewId(Classify(revs[i].text, classifier), revs[i].review_id)]

\* a test that lets a product without ASIN through
ProductAbsent_emptyOnly(data) ==
    data = EmptyProduct

\* not product_data or not product_data.get('Product_ASIN')
ProductAbsent(data) ==
    \/ data = EmptyProduct
    \/ Get(data, "Product_ASIN") \in {NULL, ""}

\* what the run did with one URL
LogEntry(url, data, called_reviews, revs, analyzed, raised) ==
    [url |-> url, product |-> data, scrape_reviews |-> called_reviews,
     reviews |-> revs, analyze_sentiment |-> analyzed, raised |-> raised]

NoRun ==
    [valid |-> FALSE, log |-> <<>>, products |-> <<>>, reviews |-> <<>>,
     sentiments |-> 0]

\* a slice that leaves out the last review of a batch
BatchSlice_dropLast(texts, i, batch_size) ==
    SubSeq(texts, i + 1, i + batch_size - 1)

\* reviews[i:i + batch_size], for batch_size > 0
BatchSlice(texts, i, batch_size) ==
    SubSeq(texts, i + 1,
           IF i + batch_size > Len(texts) THEN Len(texts) ELSE i + batch_size)

\* The loops of analyze_batch from range position i on, for batch_size > 0:
\* st holds the texts handed to analyze_sentiment and the results so far.
RECURSIVE AnalyzeBatchFrom(_, _, _, _, _)
AnalyzeBatchFrom(texts, i, batch_size, classifier, st) ==
    IF i >= Len(texts) THEN st
    ELSE LET batch_texts == BatchSlice(texts, i, batch_size) IN
         AnalyzeBatchFrom(texts, i + batch_size, batch_size, classifier,
             [analyzed |-> st.analyzed \o batch_texts,
              results |-> st.results
                  \o [k \in DOMAIN batch_texts |->
                         Classify(batch_texts[k], classifier)]])

NoBatch ==
    [called |-> FALSE, reviews |-> <<>>, batch_size |-> 0, raised |-> "none",
     analyzed |-> <<>>, results |-> <<>>]

\* analyze_batch(texts, batch_size): range(0, len(reviews), batch_size)
\* raises ValueError for a step of 0 and is empty for a negative step
AnalyzeBatch(texts, batch_size, classifier) ==
    LET st == IF batch_size > 0
              THEN AnalyzeBatchFrom(texts, 0, batch_size, classifier,
                                    [analyzed |-> <<>>, results |-> <<>>])
              ELSE [analyzed |-> <<>>, results |-> <<>>]
    IN  /\ batch_call' = [called |-> TRUE, reviews |-> texts,
                          batch_size |-> batch_size,
                          raised |-> IF batch_size = 0 THEN "ValueError"
                                     ELSE "none",
                          analyzed |-> st.analyzed, results |-> st.results]
        /\ UNCHANGED <<listing, scrape_call, statistics>>

\* one analyzer.analyze_sentiment call per review, then
\* insert_sentiment_results after each of them
RECURSIVE AnalysisCalls_insertEach(_)
AnalysisCalls_insertEach(revs) ==
    IF revs = <<>> THEN <<>>
    ELSE <<"analyze_sentiment", "insert_sentiment_results">>
             \o AnalysisCalls_insertEach(Tail(revs))

\* the for loop over the reviews and, after it, the one
\* insert_sentiment_results(results) call
AnalysisCalls(revs) ==
    [i \in DOMAIN revs |-> "analyze_sentiment"]
        \o <<"insert_sentiment_results">>

\* insert_sentiment_results before insert_reviews
StoreCalls_resultsFirst(revs, analyze) ==
    <<"insert_product", "scrape_reviews">>
        \o (IF revs = <<>> THEN <<>>
            ELSE (IF analyze THEN AnalysisCalls(revs) ELSE <<>>)
                     \o <<"insert_reviews">>)

\* the calls of one pass of the for loop after a product was scraped:
\* lines 42-64 of run_pipeline
StoreCalls(revs, analyze) ==
    <<"insert_product", "scrape_reviews">>
        \o (IF revs = <<>> THEN <<>>
            ELSE <<"insert_reviews">>
                     \o (IF analyze THEN AnalysisCalls(revs) ELSE <<>>))

\* insert_product, scrape_reviews, insert_reviews and, under analyze, the
\* classification of the reviews and insert_sentiment_results
StoreScraped(url, data, revs, analyze, classifier) ==
    LET st == InsertReviewsFrom([rows |-> reviews, count |-> 0, done |-> {}],
                                revs, 1)
        res == AnalyzeAll(ToClassify(revs, st.count), classifier)
        sst == InsertSentimentResultsFrom(
                   [rows |-> sentiment_analysis, count |-> 0], res, 1)
    IN  /\ products' = UpsertProduct(products, ProductParams(data, now),
                                     product_seq + 1, now)
        /\ product_seq' = product_seq + 1
        /\ product_data' = data
        /\ calls' = <<"scrape_product">> \o StoreCalls(revs, analyze)
        /\ limit' = 0
        /\ unanalyzed' = <<>>
        /\ IF revs # <<>>
           THEN /\ reviews' = st.rows
                /\ written' = written \cup st.done
                /\ batch' = revs
                /\ inserted' = st.count
           ELSE /\ batch' = <<>>
                /\ inserted' = 0
                /\ UNCHANGED <<reviews, written>>
        /\ IF revs # <<>> /\ analyze
           THEN /\ sentiment_analysis' = sst.rows
                /\ results' = res
                /\ sa_inserted' = sst.count
                /\ op' = "insert_sentiment_results"
           ELSE /\ results' = <<>>
                /\ sa_inserted' = 0
                /\ op' = IF revs # <<>> THEN "insert_reviews" ELSE "insert_product"
                /\ UNCHANGED sentiment_analysis

\* no pipeline function is running: none was started, the last one returned
\* or it raised
Resting ==
    pl_pc \in {"idle", "raised"}

\* scrape_and_analyze(us, MaxPages) up to its for loop
FullRunStart(us) ==
    /\ Resting
    /\ ops < MaxOps
    /\ ops' = ops + 1
    /\ pl_pc' = "full"
    /\ urls' = us
    /\ url_idx' = 1
    /\ attempted' = {}
    /\ run_log' = <<>>
    /\ calls' = <<>>
    /\ UNCHANGED <<pending_reviews, last_run, dbVars, stVars>>

\* except Exception: raise, and finally scraper.close()
FullRunRaises(url, data, raised) ==
    /\ pl_pc' = "raised"
    /\ run_log' = Append(run_log, LogEntry(url, data, FALSE, <<>>, 0, raised))
    /\ last_run' = NoRun
    /\ calls' = IF raised = "scrape" THEN <<"scrape_product">>
                ELSE <<"scrape_product", "insert_product">>
    /\ UNCHANGED <<url_idx, dbVars, stVars>>

\* One pass of the for loop of scrape_and_analyze. fetched_product: the
\* product page can be fetched; fetched: so many review pages can; store_ok:
\* insert_product does not raise a sqlite3 error.
FullRunUrl(fetched_product, fetched, store_ok, classifier) ==
    /\ pl_pc = "full"
    /\ url_idx <= Len(urls)
    /\ attempted' = attempted \cup {url_idx}
    /\ LET url == urls[url_idx]
           data == ScrapeProduct(url, GetPage(fetched_product))
           revs == ScrapeReviews(url, MaxPages, fetched)
           newly == InsertReviewsFrom(
                        [rows |-> reviews, count |-> 0, done |-> {}], revs, 1).count
       IN  IF data.Product_Link = "raise"
           THEN FullRunRaises(url, data, "scrape")
           ELSE IF ProductAbsent(data)
           THEN /\ url_idx' = url_idx + 1
                /\ run_log' = Append(run_log,
                                     LogEntry(url, data, FALSE, <<>>, 0, "none"))
                /\ calls' = <<"scrape_product">>
                /\ UNCHANGED <<pl_pc, last_run, dbVars, stVars>>
           ELSE IF ~store_ok
           THEN FullRunRaises(url, data, "OperationalError")
           ELSE /\ StoreScraped(url, data, revs, TRUE, classifier)
                /\ url_idx' = url_idx + 1
                /\ run_log' = Append(run_log,
                                     LogEntry(url, data, TRUE, revs,
                                              Len(ToClassify(revs, newly)), "none"))
                /\ UNCHANGED <<pl_pc, last_run>>
    /\ UNCHANGED <<urls, pending_reviews, ops>>

\* the for loop of scrape_and_analyze is over: finally, and the return
FullRunEnd ==
    /\ pl_pc = "full"
    /\ url_idx > Len(urls)
    /\ pl_pc' = "idle"
    /\ last_run' = [valid |-> TRUE, log |-> run_log, products |-> products,
                    reviews |-> reviews, sentiments |-> Len(sentiment_analysis)]
    /\ calls' = <<>>
    /\ UNCHANGED <<urls, url_idx, attempted, pending_reviews, run_log, ops,
                   dbVars, stVars>>

\* analyze_pending_reviews(lim)
IncrementalRun(lim, classifier) ==
    /\ Resting
    /\ ops < MaxOps
    /\ ops' = ops + 1
    /\ pl_pc' = "idle"
    /\ last_run' = NoRun
    /\ limit' = lim
    /\ \E pending \in UnanalyzedResults(reviews, sentiment_analysis, lim) :
         LET res == AnalyzeAll(pending, classifier)
             sst == InsertSentimentResultsFrom(
                        [rows |-> sentiment_analysis, count |-> 0], res, 1)
         IN  /\ pending_reviews' = pending
             /\ unanalyzed' = pending
             /\ calls' = <<"get_unanalyzed_reviews">>
                             \o (IF pending = <<>> THEN <<>>
                                 ELSE AnalysisCalls(pending))
             /\ IF pending = <<>>
                THEN /\ op' = "get_unanalyzed_reviews"
                     /\ results' = <<>>
                     /\ sa_inserted' = 0
                     /\ UNCHANGED sentiment_analysis
                ELSE /\ op' = "insert_sentiment_results"
                     /\ results' = res
                     /\ sa_inserted' = sst.count
                     /\ sentiment_analysis' = sst.rows
    /\ product_data' = EmptyProduct
    /\ UNCHANGED <<products, product_seq, urls, url_idx, attempted, run_log,
                   dbVars>>

\* The dashboard's Scrape Product button: the product and its reviews are
\* stored, nothing is classified.
DashboardScrape(url, fetched_product, fetched) ==
    /\ Resting
    /\ ops < MaxOps
    /\ ops' = ops + 1
    /\ pl_pc' = "idle"
    /\ last_run' = NoRun
    /\ LET data == ScrapeProduct(url, GetPage(fetched_product)) IN
         IF data = EmptyProduct
         THEN calls' = <<"scrape_product">> /\ UNCHANGED <<dbVars, stVars>>
         ELSE StoreScraped(url, data,
                           ScrapeReviews(url, DashboardMaxPages, fetched),
                           FALSE, "positive")
    /\ UNCHANGED <<urls, url_idx, attempted, pending_reviews, run_log>>

\* --------------------------------------------------------- specifications

NoUsage ==
    [requests_used |-> 0, requests_remaining |-> 0,
     tokens_used |-> 0, tokens_remaining |-> 0]

\* RateLimiter.__init__, and every thread outside the RateLimiter
NewRateLimiter(max_requests_per_minute, max_tokens_per_minute) ==
    /\ now = 0
    /\ max_rpm = max_requests_per_minute
    /\ max_tpm = max_tokens_per_minute
    /\ request_times = <<>>
    /\ token_counts = <<>>
    /\ lock = NoThread
    /\ pc = [t \in Threads |-> "idle"]
    /\ wakeAt = [t \in Threads |-> 0]
    /\ enteredAt = [t \in Threads |-> 0]
    /\ enteredOldest = [t \in Threads |-> -1]
    /\ outcome = [t \in Threads |-> "none"]
    /\ waited = [t \in Threads |-> 0]
    /\ oldestAge = [t \in Threads |-> -1]
    /\ usage = NoUsage

InitRL ==
    \E rpm \in 0..MaxRpm : NewRateLimiter(rpm, MaxTpm)

InitIdleAnalyzer ==
    /\ review_text = NoneText
    /\ content = NoContent
    /\ exception = NoException
    /\ ret = Returned(NoValue)
    /\ remote_starts = <<>>

\* init_database on a new file
InitDatabase ==
    /\ reviews = <<>>
    /\ batch = <<>>
    /\ inserted = 0
    /\ written = {}
    /\ products = <<>>
    /\ product_seq = 0
    /\ sentiment_analysis = <<>>
    /\ op = "none"
    /\ product_data = EmptyProduct
    /\ results = <<>>
    /\ sa_inserted = 0
    /\ limit = 0
    /\ unanalyzed = <<>>

\* no pipeline run has started
InitPipeline ==
    /\ pl_pc = "idle"
    /\ urls = <<>>
    /\ url_idx = 0
    /\ attempted = {}
    /\ pending_reviews = <<>>
    /\ run_log = <<>>
    /\ last_run = NoRun
    /\ ops = 0
    /\ calls = <<>>

\* no review is on the Flipkart page yet and scrape_reviews was not called
InitScraper ==
    /\ listing = <<>>
    /\ scrape_call = NoScrape
    /\ statistics = NoStatistics
    /\ batch_call = NoBatch

InitAnalyzer ==
    /\ InitRL
    /\ InitIdleAnalyzer
    /\ InitDatabase
    /\ InitPipeline
    /\ InitScraper

NextAnalyzer ==
    \/ Tick /\ UNCHANGED <<anVars, dbVars, stVars, plVars, scVars>>
    \/ \E text \in Texts : AnalyzeSentiment(text) /\ UNCHANGED <<dbVars, stVars, plVars, scVars>>
    \/ AnalyzeResume /\ UNCHANGED <<dbVars, stVars, plVars, scVars>>
    \/ StartRemoteCall /\ UNCHANGED <<dbVars, stVars, plVars, scVars>>
    \/ \E r \in Replies : RemoteCompletes(r[1], r[2]) /\ UNCHANGED <<dbVars, stVars, plVars, scVars>>
    \/ \E e \in RemoteErrors : RemoteFails(e) /\ UNCHANGED <<dbVars, stVars, plVars, scVars>>

\* One caller making analyze_sentiment calls one after the other.
SpecAnalyzer == InitAnalyzer /\ [][NextAnalyzer]_vars

\* A fresh RateLimiter; nothing analysed or stored yet.
InitLimiter ==
    /\ InitRL
    /\ InitIdleAnalyzer
    /\ InitDatabase
    /\ InitPipeline
    /\ InitScraper

NextRL ==
    \/ Tick /\ UNCHANGED <<anVars, dbVars, stVars, plVars, scVars>>
    \/ \E t \in Threads : WaitIfNeeded(t) /\ UNCHANGED <<anVars, dbVars, stVars, plVars, scVars>>
    \/ \E t \in Threads : WaitResume(t) /\ UNCHANGED <<anVars, dbVars, stVars, plVars, scVars>>
    \/ \E t \in Threads : CallAddRequest(t) /\ UNCHANGED <<anVars, dbVars, stVars, plVars, scVars>>
    \/ \E t \in Threads : AddRequest(t) /\ UNCHANGED <<anVars, dbVars, stVars, plVars, scVars>>
    \/ \E t \in Threads : CallGetCurrentUsage(t) /\ UNCHANGED <<anVars, dbVars, stVars, plVars, scVars>>
    \/ \E t \in Threads : GetCurrentUsage(t) /\ UNCHANGED <<anVars, dbVars, stVars, plVars, scVars>>

\* Threads sharing one RateLimiter, each calling wait_if_needed and then
\* add_request as analyze_sentiment does, and get_current_usage at will.
SpecRL == InitLimiter /\ [][NextRL]_vars

\* ------------------------------------------- RateLimiter, a single caller

\* The caller calls add_request without asking wait_if_needed first.
CallAddRequestUngated(t) ==
    /\ pc[t] = "idle"
    /\ Len(request_times) < MaxQueue
    /\ pc' = [pc EXCEPT ![t] = "add_lock"]
    /\ outcome' = [outcome EXCEPT ![t] = "none"]
    /\ UNCHANGED <<now, max_rpm, max_tpm, request_times, token_counts, lock,
                   wakeAt, enteredAt, enteredOldest, waited, oldestAge, usage>>

NextSeq ==
    \/ Tick /\ UNCHANGED <<anVars, dbVars, stVars, plVars, scVars>>
    \/ WaitIfNeeded(Main) /\ UNCHANGED <<anVars, dbVars, stVars, plVars, scVars>>
    \/ WaitResume(Main) /\ UNCHANGED <<anVars, dbVars, stVars, plVars, scVars>>
    \/ CallAddRequest(Main) /\ UNCHANGED <<anVars, dbVars, stVars, plVars, scVars>>
    \/ CallAddRequestUngated(Main) /\ UNCHANGED <<anVars, dbVars, stVars, plVars, scVars>>
    \/ AddRequest(Main) /\ UNCHANGED <<anVars, dbVars, stVars, plVars, scVars>>
    \/ CallGetCurrentUsage(Main) /\ UNCHANGED <<anVars, dbVars, stVars, plVars, scVars>>
    \/ GetCurrentUsage(Main) /\ UNCHANGED <<anVars, dbVars, stVars, plVars, scVars>>

\* One caller using the three methods of a RateLimiter in any order.
SpecSeq == InitLimiter /\ [][NextSeq]_vars

\* The clock advances and a thread whose sleep has ended runs.
FairSpecSeq ==
    /\ SpecSeq
    /\ WF_vars(Tick /\ UNCHANGED <<anVars, dbVars, stVars, plVars, scVars>>)
    /\ WF_vars(WaitResume(Main) /\ UNCHANGED <<anVars, dbVars, stVars, plVars, scVars>>)

InitDB ==
    /\ NewRateLimiter(MaxRpm, MaxTpm)
    /\ InitIdleAnalyzer
    /\ InitDatabase
    /\ InitPipeline
    /\ InitScraper

NextDB ==
    \/ \E revs \in ReviewLists : InsertReviews(revs) /\ UNCHANGED <<rlVars, anVars, stVars, plVars, scVars>>

\* One process using a DatabaseManager.
SpecDB == InitDB /\ [][NextDB]_vars

\* ------------------------------------------------- DatabaseManager, all of it

\* the record of the last call, for a call of insert_reviews
AfterInsertReviews ==
    /\ op' = "insert_reviews"
    /\ product_data' = EmptyProduct
    /\ results' = <<>>
    /\ sa_inserted' = 0
    /\ limit' = 0
    /\ unanalyzed' = <<>>
    /\ UNCHANGED <<products, product_seq, sentiment_analysis>>

\* the record of the last insert_reviews call, for a call of another method
NoInsertReviews ==
    /\ batch' = <<>>
    /\ inserted' = 0
    /\ UNCHANGED <<reviews, written>>

StoreReviewLists ==
    {revs \in ReviewLists : Len(revs) <= 1}
        \cup {<<ReviewA, ReviewA2>>, <<ReviewA2, ReviewB>>}

StoreResultLists ==
    {res \in ResultLists : Len(res) <= 1}
        \cup {<<ResultR1, ResultR1>>, <<ResultUnbindable, ResultR2>>}

NextStore ==
    \/ \E data \in {ProductP1} :
           InsertProduct(data) /\ NoInsertReviews
               /\ UNCHANGED <<rlVars, anVars, plVars, scVars>>
    \/ \E revs \in StoreReviewLists :
           /\ Len(reviews) + Len(revs) <= MaxStoreRows
           /\ InsertReviews(revs) /\ AfterInsertReviews
           /\ UNCHANGED <<rlVars, anVars, plVars, scVars>>
    \/ \E res \in StoreResultLists :
           InsertSentimentResults(res) /\ NoInsertReviews
               /\ UNCHANGED <<rlVars, anVars, plVars, scVars>>
    \/ \E lim \in Limits :
           GetUnanalyzedReviews(lim) /\ NoInsertReviews
               /\ UNCHANGED <<rlVars, anVars, plVars, scVars>>

\* One process calling the methods of a DatabaseManager in any order.
SpecStore == InitDB /\ [][NextStore]_vars

NextProducts ==
    \/ Tick /\ UNCHANGED <<anVars, dbVars, stVars, plVars, scVars>>
    \/ \E data \in ProductDicts :
           InsertProduct(data) /\ UNCHANGED <<rlVars, anVars, dbVars, plVars, scVars>>

\* One process calling insert_product as time passes.
SpecProducts == InitDB /\ [][NextProducts]_vars

UrlLists ==
    {<<"U1">>, <<"U2">>, <<"U1", "U2">>, <<"UBad", "U1">>}

NextPipeline ==
    \/ \E us \in UrlLists : FullRunStart(us) /\ UNCHANGED <<rlVars, anVars, scVars>>
    \/ \E fetched_product, store_ok \in BOOLEAN :
         \E fetched \in 0..MaxPages : \E classifier \in ClassifierOutcomes :
           FullRunUrl(fetched_product, fetched, store_ok, classifier)
               /\ UNCHANGED <<rlVars, anVars, scVars>>
    \/ FullRunEnd /\ UNCHANGED <<rlVars, anVars, scVars>>
    \/ \E lim \in Limits : \E classifier \in ClassifierOutcomes :
           IncrementalRun(lim, classifier) /\ UNCHANGED <<rlVars, anVars, scVars>>
    \/ \E url \in {"U1", "U2"} : \E fetched_product \in BOOLEAN :
         \E fetched \in 0..MaxPages :
           DashboardScrape(url, fetched_product, fetched)
               /\ UNCHANGED <<rlVars, anVars, scVars>>

\* Full runs, incremental runs and dashboard scrapes, one after the other,
\* on one store.
SpecPipeline == InitDB /\ [][NextPipeline]_vars

AmazonUrls ==
    {"U1", "U2", "UBad"}

\* the reviews of the last scrape_reviews call handed to insert_reviews
StoreScrapedReviews ==
    /\ scrape_call.reviews # <<>>
    /\ InsertReviews(scrape_call.reviews)

NextScrape ==
    \/ \E url \in AmazonUrls : \E max_pages, fetched \in 0..MaxPages :
           AmazonScrapeReviews(url, max_pages, fetched)
               /\ UNCHANGED <<rlVars, anVars, dbVars, stVars, plVars>>
    \/ \E max_pages \in 0..MaxPages : \E fetched \in 0..1 :
           FlipkartScrapeReviews("F1", max_pages, fetched)
               /\ UNCHANGED <<rlVars, anVars, dbVars, stVars, plVars>>
    \/ \E review_div \in ReviewBlocks :
           PostReview(review_div)
               /\ UNCHANGED <<rlVars, anVars, dbVars, stVars, plVars>>
    \/ StoreScrapedReviews /\ UNCHANGED <<rlVars, anVars, stVars, plVars, scVars>>

\* A caller scraping the reviews of Amazon and Flipkart products and storing
\* them, while customers post reviews.
SpecScrape == InitDB /\ [][NextScrape]_vars

\* the record of the last get_sentiment_statistics call, for another call
NoGetStatistics ==
    statistics' = NoStatistics

CoreReviewLists ==
    {<<ReviewA>>, <<ReviewB>>, <<ReviewA2, ReviewNoId>>}

CoreResultLists ==
    {<<ResultR1>>, <<ResultR2>>, <<ResultNoId, ResultUnbindable>>}

NextCore ==
    \/ \E data \in ProductDicts :
           InsertProduct(data) /\ NoInsertReviews /\ NoGetStatistics
               /\ UNCHANGED <<rlVars, anVars, plVars, listing, scrape_call, batch_call>>
    \/ \E revs \in CoreReviewLists :
           /\ Len(reviews) + Len(revs) <= MaxStoreRows
           /\ InsertReviews(revs) /\ AfterInsertReviews /\ NoGetStatistics
           /\ UNCHANGED <<rlVars, anVars, plVars, listing, scrape_call, batch_call>>
    \/ \E res \in CoreResultLists :
           InsertSentimentResults(res) /\ NoInsertReviews /\ NoGetStatistics
               /\ UNCHANGED <<rlVars, anVars, plVars, listing, scrape_call, batch_call>>
    \/ \E lim \in {-1, 1} :
           GetUnanalyzedReviews(lim) /\ NoInsertReviews /\ NoGetStatistics
               /\ UNCHANGED <<rlVars, anVars, plVars, listing, scrape_call, batch_call>>
    \/ GetSentimentStatistics /\ NoInsertReviews
           /\ UNCHANGED <<rlVars, anVars, plVars, listing, scrape_call, batch_call>>

\* One process calling the five methods of a DatabaseManager in any order.
SpecCore == InitDB /\ [][NextCore]_vars

BatchTexts ==
    {"great phone", "fine", ""}

TextLists ==
    UNION {[1..n -> BatchTexts] : n \in 0..MaxTexts}

BatchSizes ==
    -1..MaxTexts

NextBatch ==
    \/ \E texts \in TextLists : \E batch_size \in BatchSizes :
         \E classifier \in ClassifierOutcomes :
           AnalyzeBatch(texts, batch_size, classifier)
               /\ UNCHANGED <<rlVars, anVars, dbVars, stVars, plVars>>

\* One caller making analyze_batch calls one after the other.
SpecBatch == InitDB /\ [][NextBatch]_vars

\* ------------------------------------------------------------------ claims

Unexpired(q) ==
    {i \in DOMAIN q : q[i] > now - Window}

InWait(t) ==
    pc[t] \in {"sleeping", "spinning"}

\* C1: with concurrent callers each doing wait_if_needed() and later
\* add_request(), request_times never holds more than max_rpm entries younger
\* than the window.
C1_RequestLimit ==
    Cardinality(Unexpired(request_times)) <= max_rpm

\* C4: a wait_if_needed() entered when the deque had reached max_rpm entries
\* inside the window does not return before the oldest of them is at least a
\* window old.
C4_WaitsForOldest ==
    \A t \in Threads :
        (outcome[t] = "return" /\ oldestAge[t] >= 0) => oldestAge[t] >= Window

C4_Witness ==
    /\ outcome[Main] = "return"
    /\ oldestAge[Main] >= 0
    /\ waited[Main] > 0
    /\ max_rpm >= 1

\* What C5 says of one state: no call ends by raising, a sleep ends and a
\* call returns no later than a window plus the margin after the call began.
C5_Bounded ==
    \A t \in Threads :
        /\ outcome[t] # "IndexError"
        /\ pc[t] = "sleeping" => wakeAt[t] <= enteredAt[t] + Window + Margin
        /\ InWait(t) => now <= enteredAt[t] + Window + Margin
        /\ outcome[t] = "return" => waited[t] <= Window + Margin

\* C5 as stated: for every max_rpm, wait_if_needed() returns within a window
\* plus the safety margin.
C5_AlwaysReturns ==
    C5_Bounded

\* C5, amended: for every max_rpm >= 1 and every queue content reachable
\* through add_request(), wait_if_needed() returns, after at most a window plus
\* the safety margin, as time advances.
C5_ReturnsWhenPositive ==
    /\ [](max_rpm >= 1 => C5_Bounded)
    /\ \A t \in {Main} :
         (max_rpm >= 1 /\ InWait(t) /\ enteredAt[t] + Window + Margin <= MaxTime)
             ~> (pc[t] = "gated")

C5_Witness ==
    /\ max_rpm >= 1
    /\ outcome[Main] = "return"
    /\ waited[Main] = Window + Margin

\* C6: a get_current_usage() or add_request() issued while another thread
\* sleeps inside wait_if_needed() does not have to wait for that sleep to end.
C6_OnlyWaitBlocks ==
    \A t, u \in Threads :
        ~(pc[t] = "sleeping" /\ lock = t /\ pc[u] \in {"add_lock", "usage_lock"})

\* C2: whatever the outcome of each remote call, no more than max_rpm remote
\* classifier invocations start within any rolling window.
C2_InvocationLimit ==
    \A i \in DOMAIN remote_starts :
        Cardinality({j \in DOMAIN remote_starts :
                        /\ remote_starts[i] <= remote_starts[j]
                        /\ remote_starts[j] < remote_starts[i] + Window}) <= max_rpm

UnexpiredTokens ==
    {i \in DOMAIN token_counts : token_counts[i][1] > now - Window}

RECURSIVE SumOver(_, _)
SumOver(q, idx) ==
    IF idx = {} THEN 0
    ELSE LET i == CHOOSE i \in idx : TRUE IN q[i][2] + SumOver(q, idx \ {i})

LargestCall(q, idx) ==
    IF idx = {} THEN 0
    ELSE CHOOSE m \in {q[i][2] : i \in idx} : \A i \in idx : q[i][2] <= m

\* C3: the tokens of the entries younger than the window exceed max_tpm by at
\* most the tokens of one single call.
C3_TokenLimit ==
    SumOver(token_counts, UnexpiredTokens)
        <= max_tpm + LargestCall(token_counts, UnexpiredTokens)

\* C7: a call with a text shorter than 10 characters returns exactly
\* {NEUTRAL, 0, "Review too short"}, starts no remote call and leaves the
\* RateLimiter as it was.
C7_ShortTextIsNeutral ==
    [][\A text \in Texts \ {NoneText} :
          (Len(text) < MinReviewLength /\ AnalyzeSentiment(text)) =>
              /\ ret' = [raised |-> "none",
                         value |-> [sentiment |-> NEUTRAL, confidence |-> 0,
                                    error |-> "Review too short"]]
              /\ UNCHANGED <<request_times, token_counts, remote_starts, pc,
                             lock, outcome, wakeAt>>]_vars

C7_Witness ==
    /\ review_text # NoneText
    /\ Len(review_text) \in 1..(MinReviewLength - 1)
    /\ ret.value = TooShortResult
    /\ request_times # <<>>
    /\ pc[Main] = "idle"

\* A call that got a completion has returned.
Completed ==
    /\ content # NoContent
    /\ pc[Main] = "idle"

\* C8 as stated: every label of the remote service outside the three labels is
\* returned as NEUTRAL.
C8_OutsideLabelIsNeutral ==
    (Completed /\ content \notin SENTIMENT_LABELS) => ret.value.sentiment = NEUTRAL

HasValue ==
    ret.raised = "none" /\ ret.value # NoValue

\* C8, amended: every label whose stripped, upper-cased form is outside the
\* three labels is returned as NEUTRAL, and the sentiment of every result is
\* one of the three labels.
C8_NormalizedLabelIsValidated ==
    /\ (Completed /\ Upper(Strip(content)) \notin SENTIMENT_LABELS)
           => ret.value.sentiment = NEUTRAL
    /\ HasValue => ret.value.sentiment \in SENTIMENT_LABELS

C8_Witness ==
    /\ Completed
    /\ content = MIXED
    /\ ret.value.sentiment = NEUTRAL
    /\ ret.value.confidence = 95

\* C9: analyze_sentiment never raises, and a call in which an exception
\* occurred returns {NEUTRAL, 0, error: its message}.
C9_NeverRaises ==
    /\ ret.raised = "none"
    /\ exception # NoException =>
           ret.value = [sentiment |-> NEUTRAL, confidence |-> 0, error |-> exception]

C9_Witness ==
    /\ exception = "APITimeoutError"
    /\ ret.value.error = "APITimeoutError"
    /\ pc[Main] = "idle"

RowsWithId(id) ==
    {i \in DOMAIN reviews : reviews[i].review_id = id}

\* the ids a list of reviews gets executed: those whose parameters bind
ExecutedIds(revs) ==
    {ReviewParams(revs[i]).review_id :
        i \in {j \in DOMAIN revs : ~BindFails(ReviewParams(revs[j]))}}

NullRows(revs) ==
    {j \in DOMAIN revs : /\ ~BindFails(ReviewParams(revs[j]))
                         /\ ReviewParams(revs[j]).review_id = NULL}

\* C10: after any sequence of insert_reviews calls the table holds exactly one
\* row per review id written, and a call counts as newly inserted only the ids
\* that were not stored before it (an id already stored counts zero; a review
\* without an id has no id to repeat and counts as a row of its own).
C10_OneRowPerId ==
    [][/\ \A id \in written' \ {NULL} : Cardinality(RowsWithId(id)') = 1
       /\ \A i \in DOMAIN reviews' : reviews'[i].review_id \in written'
       /\ \A revs \in ReviewLists :
            InsertReviews(revs) =>
                inserted' = Cardinality((ExecutedIds(revs) \ {NULL})
                                            \ {reviews[i].review_id : i \in DOMAIN reviews})
                            + Cardinality(NullRows(revs))]_vars

C10_Witness ==
    /\ batch = <<ReviewA2>>
    /\ inserted = 0
    /\ Cardinality(RowsWithId("R1")) = 1
    /\ \E i \in DOMAIN reviews : reviews[i] = ReviewParams(ReviewA)

\* the parameters of the first review of revs that binds and carries id
FirstWrite(revs, id) ==
    LET writes == {j \in DOMAIN revs : /\ ~BindFails(ReviewParams(revs[j]))
                                       /\ ReviewParams(revs[j]).review_id = id}
        first == CHOOSE j \in writes : \A k \in writes : j <= k
    IN  ReviewParams(revs[first])

\* C11: whatever DatabaseManager method runs, every stored review row stays
\* as it is, and the row insert_reviews adds for a review id carries the
\* fields of the first write of that id; a later write of the id changes
\* nothing.
C11_ReviewsImmutable ==
    [][/\ Len(reviews') >= Len(reviews)
       /\ \A i \in DOMAIN reviews : reviews'[i] = reviews[i]
       /\ \A revs \in StoreReviewLists :
            InsertReviews(revs) =>
                \A i \in DOMAIN reviews' \ DOMAIN reviews :
                    reviews'[i].review_id # NULL =>
                        reviews'[i] = FirstWrite(revs, reviews'[i].review_id)]_vars

C11_Witness ==
    /\ op = "insert_reviews"
    /\ batch = <<ReviewA2, ReviewB>>
    /\ inserted = 1
    /\ \E i \in DOMAIN reviews : reviews[i] = ReviewParams(ReviewA)
    /\ \A i \in DOMAIN reviews : reviews[i] # ReviewParams(ReviewA2)
    /\ products # <<>>

RowsOfProduct(rows, asin) ==
    {i \in DOMAIN rows : rows[i].product_asin = asin}

\* C12: insert_product called for a product id that already has a row leaves
\* exactly one row of that id, and every field of it is the one the second
\* call gives (as insert_product converts it): nothing is kept from the first
\* call, the rowid included.
C12_LastWriteWins ==
    [][\A data \in ProductDicts :
          (/\ InsertProduct(data)
           /\ RowsOfProduct(products, data.Product_ASIN) # {})
          => /\ Cardinality(RowsOfProduct(products', data.Product_ASIN)) = 1
             /\ \A i \in RowsOfProduct(products', data.Product_ASIN) :
                  /\ products'[i] = ProductRow(ProductParams(data, now),
                                               product_seq', now)
                  /\ \A j \in DOMAIN products : products'[i].id # products[j].id]_vars

C12_Witness ==
    /\ op = "insert_product"
    /\ product_data = ProductP1b
    /\ product_seq = 2
    /\ Len(products) = 1
    /\ products[1].product_asin = "P1"
    /\ products[1].brand = NULL
    /\ products[1].price = NULL
    /\ products[1].updated_at > 0

AfterGetUnanalyzed ==
    op = "get_unanalyzed_reviews"

\* C13 as stated: no review_id get_unanalyzed_reviews(limit) returns is the
\* review_id of a sentiment_analysis row, and it returns at most limit reviews.
C13_NoAnalyzedAtMostLimit ==
    AfterGetUnanalyzed =>
        /\ \A k \in DOMAIN unanalyzed : \A j \in DOMAIN sentiment_analysis :
               sentiment_analysis[j].review_id # unanalyzed[k].review_id
        /\ Len(unanalyzed) <= limit

\* C13, amended: get_unanalyzed_reviews(limit) returns no review id (a stored
\* id, not the NULL of a review without one) that has a sentiment_analysis
\* row, and for limit >= 0 it returns at most limit reviews.
C13_NoAnalyzedIdWithinLimit ==
    AfterGetUnanalyzed =>
        /\ \A k \in DOMAIN unanalyzed :
               unanalyzed[k].review_id # NULL =>
                   \A j \in DOMAIN sentiment_analysis :
                       sentiment_analysis[j].review_id # unanalyzed[k].review_id
        /\ limit >= 0 => Len(unanalyzed) <= limit

C13_Witness ==
    /\ AfterGetUnanalyzed
    /\ limit = 1
    /\ Len(unanalyzed) = 1
    /\ unanalyzed[1].review_id = ""
    /\ Cardinality(Eligible(reviews, sentiment_analysis)) = 2
    /\ \E i \in DOMAIN reviews : \E j \in DOMAIN sentiment_analysis :
           /\ reviews[i].review_id = "R1"
           /\ reviews[i].text = "great phone"
           /\ sentiment_analysis[j].review_id = "R1"

\* the positions of the stored reviews no sentiment_analysis row refers to
Unmatched ==
    {i \in DOMAIN reviews :
        \/ reviews[i].review_id = NULL
        \/ \A j \in DOMAIN sentiment_analysis :
               sentiment_analysis[j].review_id # reviews[i].review_id}

UnmatchedWithText ==
    {i \in Unmatched : reviews[i].text \notin {NULL, ""}}

Returned_rows ==
    {unanalyzed[k] : k \in DOMAIN unanalyzed}

\* C14 as stated: when at most limit stored reviews have no sentiment_analysis
\* row, get_unanalyzed_reviews(limit) returns every one of them.
C14_ReturnsAllUnmatched ==
    (AfterGetUnanalyzed /\ Cardinality(Unmatched) <= limit) =>
        \A i \in Unmatched : SelectedColumns(reviews[i]) \in Returned_rows

\* C14, amended: when at most limit stored reviews have no sentiment_analysis
\* row and a text that is neither NULL nor empty, get_unanalyzed_reviews(limit)
\* returns every one of them, and nothing else.
C14_ReturnsAllUnmatchedWithText ==
    (AfterGetUnanalyzed /\ Cardinality(UnmatchedWithText) <= limit) =>
        /\ \A i \in UnmatchedWithText : SelectedColumns(reviews[i]) \in Returned_rows
        /\ Len(unanalyzed) = Cardinality(UnmatchedWithText)

C14_Witness ==
    /\ AfterGetUnanalyzed
    /\ limit = 2
    /\ Len(unanalyzed) = 2
    /\ Cardinality(UnmatchedWithText) = 2
    /\ Cardinality(Unmatched) = 2
    /\ Len(reviews) = 3
    /\ sentiment_analysis # <<>>

\* C16: every insert_sentiment_results call appends one row per result that
\* can be written, in order and whatever rows the table holds already, skips
\* the results that cannot be written and returns the number of rows it wrote.
C16_AlwaysAppends ==
    [][\A res \in StoreResultLists :
          InsertSentimentResults(res) =>
              /\ sentiment_analysis' =
                     sentiment_analysis \o
                         [k \in DOMAIN Writable(res) |-> SentimentParams(Writable(res)[k])]
              /\ sa_inserted' = Len(Writable(res))]_vars

C16_Witness ==
    /\ op = "insert_sentiment_results"
    /\ results = <<ResultUnbindable, ResultR2>>
    /\ sa_inserted = 1
    /\ Len(sentiment_analysis) = 2
    /\ \A j \in DOMAIN sentiment_analysis : sentiment_analysis[j].review_id = "R2"

\* the positions of the stored reviews that have a sentiment_analysis row
WithResult ==
    {i \in DOMAIN reviews :
        \E j \in DOMAIN sentiment_analysis :
            sentiment_analysis[j].review_id = reviews[i].review_id}

\* no get_unanalyzed_reviews call made now returns a review the last
\* incremental run fetched
PendingNotReturnedAgain ==
    \A k \in DOMAIN pending_reviews : \A lim \in Limits :
        \A rows \in UnanalyzedResults(reviews, sentiment_analysis, lim) :
            \A n \in DOMAIN rows : rows[n] # pending_reviews[k]

\* an incremental run returns exactly the review at position third and leaves
\* nothing to analyse
ReturnsExactly(third, lim) ==
    /\ pending_reviews' = <<SelectedColumns(reviews[third])>>
    /\ UnanalyzedResults(reviews', sentiment_analysis', lim) = {<<>>}

\* C15 as stated: no review an incremental run fetched is returned by a later
\* get_unanalyzed_reviews; with 3 stored reviews of which 2 have a result the
\* run fetches exactly the third, and the next call returns nothing.
C15_IncrementalRunDrains ==
    /\ []PendingNotReturnedAgain
    /\ [][\A lim \in Limits \ {0} : \A classifier \in ClassifierOutcomes :
            (/\ IncrementalRun(lim, classifier)
             /\ Len(reviews) = 3
             /\ Cardinality(WithResult) = 2)
            => \A third \in DOMAIN reviews \ WithResult :
                   ReturnsExactly(third, lim)]_vars

\* C15, amended: no review an incremental run fetched is returned by a later
\* get_unanalyzed_reviews; with 3 stored reviews of which 2 have a result and
\* the third has a text that is not empty, the run fetches exactly the third,
\* and the next call returns nothing.
C15_IncrementalRunDrainsTexts ==
    /\ []PendingNotReturnedAgain
    /\ [][\A lim \in Limits \ {0} : \A classifier \in ClassifierOutcomes :
            (/\ IncrementalRun(lim, classifier)
             /\ Len(reviews) = 3
             /\ Cardinality(WithResult) = 2)
            => \A third \in DOMAIN reviews \ WithResult :
                   reviews[third].text \notin {NULL, ""} =>
                       ReturnsExactly(third, lim)]_vars

C15_Witness ==
    /\ Len(reviews) = 3
    /\ pending_reviews = <<SelectedColumns(ReviewParams(ScrapedNoId))>>
    /\ op = "insert_sentiment_results"
    /\ sa_inserted = 1
    /\ Len(sentiment_analysis) = 3
    /\ sentiment_analysis[3].review_id = ""
    /\ Cardinality(WithResult) = 3

\* C17: every sentiment_analysis row carries the review_id of a stored review.
C17_ReviewExists ==
    \A j \in DOMAIN sentiment_analysis :
        \E i \in DOMAIN reviews :
            reviews[i].review_id = sentiment_analysis[j].review_id

\* C18: a full run never ends because a page could not be fetched: it goes
\* through product_urls in order, it ends early only when a store write
\* raises, and when it returns scrape_product was called with every URL.
C18_ScrapeFailureNeverAborts ==
    /\ \A k \in DOMAIN run_log : run_log[k].raised # "scrape"
    /\ pl_pc = "full" => attempted = 1..(url_idx - 1)
    /\ (pl_pc = "idle" /\ last_run.valid) => attempted = DOMAIN urls
    /\ pl_pc = "raised" => run_log[Len(run_log)].raised = "OperationalError"

C18_Witness ==
    /\ pl_pc = "idle"
    /\ last_run.valid
    /\ urls = <<"U1", "U2">>
    /\ attempted = {1, 2}
    /\ run_log[1].product = EmptyProduct
    /\ run_log[2].reviews = <<ScrapedNoBody>>
    /\ Len(sentiment_analysis) = 1

\* C19: the pass of a full run whose product fetch is absent (no page, or a
\* page without ASIN) writes no product, review or sentiment row, calls
\* neither scrape_reviews nor analyze_sentiment, and goes on to the next URL.
C19_AbsentProductIsSkipped ==
    [][(/\ pl_pc = "full"
        /\ Len(run_log') = Len(run_log) + 1
        /\ \/ run_log'[Len(run_log')].product = EmptyProduct
           \/ run_log'[Len(run_log')].product.Product_ASIN = "")
       => /\ UNCHANGED <<products, product_seq, reviews, sentiment_analysis>>
          /\ run_log'[Len(run_log')].scrape_reviews = FALSE
          /\ run_log'[Len(run_log')].analyze_sentiment = 0
          /\ pl_pc' = "full"
          /\ url_idx' = url_idx + 1]_vars

C19_Witness ==
    /\ pl_pc = "idle"
    /\ last_run.valid
    /\ urls = <<"UBad", "U1">>
    /\ run_log[1].product.Product_ASIN = ""
    /\ run_log[1].scrape_reviews = FALSE
    /\ run_log[2].reviews # <<>>
    /\ Len(products) = 1
    /\ products[1].product_asin = "P1"

\* the columns of the products rows that insert_product is given
ProductData(rows) ==
    {[k \in DOMAIN rows[i] \ {"id", "created_at", "updated_at"} |-> rows[i][k]] :
        i \in DOMAIN rows}

\* two runs went through the same URLs and fetched the same from each
SameFetches(log1, log2) ==
    /\ Len(log1) = Len(log2)
    /\ \A k \in DOMAIN log1 :
         /\ log1[k].url = log2[k].url
         /\ log1[k].product = log2[k].product
         /\ log1[k].reviews = log2[k].reviews

RECURSIVE TotalFetched(_)
TotalFetched(log) ==
    IF log = <<>> THEN 0 ELSE Len(log[1].reviews) + TotalFetched(Tail(log))

\* C20: a full run that follows a full run over the same URLs and fetches the
\* same products and reviews leaves the products (rowid and timestamps
\* apart) and the reviews as the first run left them, and adds one
\* sentiment_analysis row per review fetched.
C20_SecondRunReclassifies ==
    [][(/\ FullRunEnd
        /\ last_run.valid
        /\ SameFetches(run_log, last_run.log))
       => /\ ProductData(products) = ProductData(last_run.products)
          /\ {reviews[i] : i \in DOMAIN reviews}
                 = {last_run.reviews[i] : i \in DOMAIN last_run.reviews}
          /\ Len(reviews) = Len(last_run.reviews)
          /\ Len(sentiment_analysis) = last_run.sentiments + TotalFetched(run_log)]_vars

C20_Witness ==
    /\ pl_pc = "idle"
    /\ last_run.valid
    /\ ops = 2
    /\ urls = <<"U1">>
    /\ run_log[1].reviews = <<ReviewA, ScrapedNoId, ScrapedHuge>>
    /\ Len(sentiment_analysis) = 6
    /\ Len(reviews) = 2
    /\ Len(products) = 1
    /\ products[1].id = 2

\* ---- C21 ----

\* the review pages the site holds for the product of a scrape_reviews call
SitePages(c) ==
    IF c.source = "amazon" THEN ReviewPages(AsinOf(c.url))
    ELSE <<FlipkartReviews(c.url, Len(listing), 1, listing)>>

\* page k of the call cannot be fetched or holds no review
PageStops(c, k) ==
    \/ k > c.fetched
    \/ k > Len(SitePages(c))
    \/ SitePages(c)[k] = <<>>

\* the reviews of pages 1..k
RECURSIVE ReviewsUpTo(_, _)
ReviewsUpTo(c, k) ==
    IF k = 0 THEN <<>>
    ELSE ReviewsUpTo(c, k - 1)
             \o (IF PageStops(c, k) THEN <<>> ELSE SitePages(c)[k])

\* C21: a scrape_reviews(url, max_pages) call for a product fetches the
\* review pages 1, 2, ... in order and at most max_pages of them, stops at
\* the first page that cannot be fetched or holds no review, and returns the
\* reviews of the pages before it.
C21_PaginatesUntilEmptyOrFailed ==
    LET c == scrape_call
        k == Len(c.pages)
    IN  (c.source # "none" /\ c.url # "UBad") =>
            /\ c.pages = [i \in 1..k |-> i]
            /\ k <= c.max_pages
            /\ \A i \in 1..(k - 1) : ~PageStops(c, i)
            /\ k < c.max_pages => (k >= 1 /\ PageStops(c, k))
            /\ c.reviews = ReviewsUpTo(c, k)

\* the same for AmazonScraper alone
AmazonPaginates ==
    scrape_call.source = "amazon" => C21_PaginatesUntilEmptyOrFailed


\* ---- C28 ----

\* two review dicts or rows describe the same review of the same product
SameReview(a, b) ==
    /\ a.product_asin = b.product_asin
    /\ a.reviewer_name = b.reviewer_name
    /\ a.text = b.text

\* C28: review ids are stable and unique per product and review: every
\* review a scraper returned, once handed to insert_reviews, is in the
\* reviews table (a review seen for the first time is not dropped as a
\* duplicate), and no review is stored twice under two ids.
C28_StableUniqueIds ==
    /\ \A i \in DOMAIN batch :
           ~BindFails(ReviewParams(batch[i])) =>
               \E j \in DOMAIN reviews : SameReview(reviews[j], batch[i])
    /\ \A j, k \in DOMAIN reviews :
           SameReview(reviews[j], reviews[k]) => j = k

\* ---- C22 ----

\* C22: a record that fails to write never makes the full run raise: the run
\* goes on with the remaining URLs and returns normally, having been
\* through every URL of its list.
C22_WriteFailureNeverRaises ==
    /\ pl_pc # "raised"
    /\ last_run.valid => Len(last_run.log) = Len(urls)

\* ---- C29 ----

\* C29: get_sentiment_statistics reports as overall product count the
\* number of products stored and as overall review count the number of
\* reviews stored.
C29_CountsStoredRecords ==
    op = "get_sentiment_statistics" =>
        /\ statistics.overall.total_products = Len(products)
        /\ statistics.overall.total_reviews = Len(reviews)

\* the review count alone
ReviewCountIsStored ==
    op = "get_sentiment_statistics" =>
        statistics.overall.total_reviews = Len(reviews)

\* ---- C23 ----

StoredAsins(rows) ==
    {rows[i].product_asin : i \in DOMAIN rows}

StoredReviewIds(rows) ==
    {rows[i].review_id : i \in DOMAIN rows}

\* C23: no call of insert_product, insert_reviews, insert_sentiment_results,
\* get_unanalyzed_reviews or get_sentiment_statistics removes a product id
\* or a review id from the store, and every sentiment_analysis row stays
\* where it is, unchanged.
C23_NothingDeleted ==
    [][/\ StoredAsins(products) \subseteq StoredAsins(products')
       /\ StoredReviewIds(reviews) \subseteq StoredReviewIds(reviews')
       /\ Len(sentiment_analysis) <= Len(sentiment_analysis')
       /\ SubSeq(sentiment_analysis', 1, Len(sentiment_analysis))
              = sentiment_analysis]_vars

\* a product row was replaced, a review and two results are stored, and the
\* statistics were read
C23_Witness ==
    /\ product_seq > Len(products)
    /\ Cardinality(StoredAsins(products)) = 2
    /\ reviews # <<>>
    /\ Len(sentiment_analysis) = 2
    /\ op = "get_sentiment_statistics"

\* ---- C24 ----

\* the step was an incremental run
IncrementalStep ==
    calls' # <<>> /\ calls'[1] = "get_unanalyzed_reviews"

\* what an incremental run does with the n reviews it fetched
IncrementalEffect ==
    LET n == Len(pending_reviews') IN
    /\ calls' = <<"get_unanalyzed_reviews">>
                    \o [i \in 1..n |-> "analyze_sentiment"]
                    \o (IF n = 0 THEN <<>> ELSE <<"insert_sentiment_results">>)
    /\ Len(sentiment_analysis') = Len(sentiment_analysis) + n
    /\ SubSeq(sentiment_analysis', 1, Len(sentiment_analysis))
           = sentiment_analysis
    /\ \A i \in 1..n :
           sentiment_analysis'[Len(sentiment_analysis) + i].review_id
               = pending_reviews'[i].review_id
    /\ UNCHANGED <<products, reviews>>

FullRunStoreStep ==
    /\ pl_pc = "full" /\ pl_pc' = "full"
    /\ Len(run_log') = Len(run_log) + 1
    /\ ~ProductAbsent(run_log'[Len(run_log')].product)

\* where the step called fn
CallsOf(fn) ==
    {i \in DOMAIN calls' : calls'[i] = fn}

\* C27: for a URL with a product, the full run upserts the product before it
\* inserts the reviews, inserts the reviews before the first classification,
\* classifies every fetched review before its one insert_sentiment_results
\* call, and writes no sentiment result when no review was fetched.
C27_StoreThenClassifyThenAppend ==
    [][FullRunStoreStep =>
        LET n == Len(run_log'[Len(run_log')].reviews) IN
        /\ Cardinality(CallsOf("insert_product")) = 1
        /\ \A i \in CallsOf("insert_product"), j \in CallsOf("insert_reviews") :
               i < j
        /\ Cardinality(CallsOf("analyze_sentiment")) = n
        /\ n > 0 =>
               /\ Cardinality(CallsOf("insert_reviews")) = 1
               /\ Cardinality(CallsOf("insert_sentiment_results")) = 1
        /\ \A i \in CallsOf("insert_reviews"), j \in CallsOf("analyze_sentiment") :
               i < j
        /\ \A i \in CallsOf("analyze_sentiment"),
              j \in CallsOf("insert_sentiment_results") : i < j
        /\ n = 0 =>
               /\ CallsOf("insert_sentiment_results") = {}
               /\ UNCHANGED sentiment_analysis]_vars

\* a pass that stored a product and classified its three reviews
C27_Witness ==
    /\ pl_pc = "full"
    /\ calls = <<"scrape_product", "insert_product", "scrape_reviews",
                 "insert_reviews", "analyze_sentiment", "analyze_sentiment",
                 "analyze_sentiment", "insert_sentiment_results">>
    /\ Len(sentiment_analysis) >= 3

\* ---- C30 ----

\* the reviews the step classified
ClassifiedReviews ==
    IF IncrementalStep THEN pending_reviews'
    ELSE run_log'[Len(run_log')].reviews

\* the run appends a row for every review it classified; the row of a
\* review that is too short, and every row with an error text, is NEUTRAL
\* with confidence 0
FailureRowWritten ==
    (FullRunStoreStep \/ IncrementalStep) =>
        LET revs == ClassifiedReviews
            base == Len(sentiment_analysis)
        IN  /\ Len(sentiment_analysis') = base + Len(revs)
            /\ \A i \in DOMAIN revs :
                   LET row == sentiment_analysis'[base + i] IN
                   /\ row.review_id = revs[i].review_id
                   /\ IsTooShort(Chars(revs[i].text)) =>
                          row.error = "Review too short"
                   /\ row.error # NULL =>
                          row.sentiment = NEUTRAL /\ row.confidence = 0

\* no get_unanalyzed_reviews call made now returns a review that has a row
\* with an error text
FailedNotReturned ==
    \A k \in DOMAIN sentiment_analysis :
        sentiment_analysis[k].error # NULL =>
            \A lim \in Limits :
                \A rows \in UnanalyzedResults(reviews, sentiment_analysis, lim) :
                    \A n \in DOMAIN rows :
                        rows[n].review_id # sentiment_analysis[k].review_id

\* C30: a review whose classification failed or that was too short gets a
\* NEUTRAL row with confidence 0 and the error text from the run, and from
\* then on get_unanalyzed_reviews never returns it.
C30_FailedReviewsAreNotRetried ==
    []FailedNotReturned /\ [][FailureRowWritten]_vars

\* review R1, stored with a text, has the row of a failed remote call, and
\* an incremental run made afterwards found nothing to classify
C30_Witness ==
    /\ \E k \in DOMAIN sentiment_analysis :
           /\ sentiment_analysis[k].review_id = "R1"
           /\ sentiment_analysis[k].error = "APITimeoutError"
    /\ \E j \in DOMAIN reviews : reviews[j].review_id = "R1" /\ HasText(reviews[j])
    /\ calls = <<"get_unanalyzed_reviews">>
    /\ Len(sentiment_analysis) = 1

\* ---- C25 ----

\* a thread's get_current_usage returns in this step
UsageReturns ==
    \E t \in Threads : pc[t] = "usage_lock" /\ pc'[t] = "idle"

\* The dict returned counts the entries the deques held at the call whose
\* age makes Counted true, and the deques are left with those entries.
ReportsEntries(Counted(_)) ==
    LET req == {i \in DOMAIN request_times : Counted(now - request_times[i])}
        tok == {i \in DOMAIN token_counts : Counted(now - token_counts[i][1])}
    IN  /\ usage'.requests_used = Cardinality(req)
        /\ usage'.tokens_used = SumOver(token_counts, tok)
        /\ usage'.requests_remaining = Max0(max_rpm - usage'.requests_used)
        /\ usage'.tokens_remaining = Max0(max_tpm - usage'.tokens_used)
        /\ usage'.requests_remaining >= 0
        /\ usage'.tokens_remaining >= 0
        /\ Len(request_times') = Cardinality(req)
        /\ Len(token_counts') = Cardinality(tok)

YoungerThanWindow(age) ==
    age < Window

NotOlderThanWindow(age) ==
    age <= Window

\* C25 as stated: get_current_usage prunes and reports the request entries
\* and the tokens of the entries younger than 60 seconds, with remaining
\* values max(0, limit - used), never negative.
C25_ReportsYoungerEntries ==
    [][UsageReturns => ReportsEntries(YoungerThanWindow)]_vars

\* C25 amended: the entries reported are those not older than 60 seconds,
\* an entry exactly 60 seconds old included.
C25_ReportsUnprunedEntries ==
    [][UsageReturns => ReportsEntries(NotOlderThanWindow)]_vars

\* a request exactly one window old is still in the deque and was reported
\* with its tokens, no request and no token remaining
C25_Witness ==
    /\ usage.requests_used >= 1
    /\ usage.tokens_used = MaxTokens
    /\ usage.requests_remaining = 0
    /\ usage.tokens_remaining = 0
    /\ \E i \in DOMAIN request_times : now - request_times[i] = Window
    /\ pc[Main] = "idle"
    /\ Len(request_times) = usage.requests_used

\* ---- C26 ----

\* The call handed the texts to analyze_sentiment one by one in input order
\* and returned, without raising, one result per text in that order (the
\* result of a text that is too short says so, no other result does).
OneResultPerText ==
    /\ batch_call.raised = "none"
    /\ batch_call.analyzed = batch_call.reviews
    /\ Len(batch_call.results) = Len(batch_call.reviews)
    /\ \A i \in DOMAIN batch_call.reviews :
           i \in DOMAIN batch_call.results =>
               (IsTooShort(Chars(batch_call.reviews[i]))
                    <=> ResultGet(batch_call.results[i], "error", NULL)
                            = "Review too short")

\* C26 as stated: for every list of texts and every batch_size.
C26_OneResultPerTextAnyBatchSize ==
    batch_call.called => OneResultPerText

\* C26 amended: for every list of texts and every batch_size >= 1.
C26_OneResultPerTextPositiveBatchSize ==
    (batch_call.called /\ batch_call.batch_size >= 1) => OneResultPerText

\* three texts, the second too short, analysed in batches of two
C26_Witness ==
    /\ batch_call.called
    /\ batch_call.reviews = <<"great phone", "fine", "great phone">>
    /\ batch_call.batch_size = 2
    /\ Len(batch_call.results) = 3
    /\ batch_call.results[2] = TooShortResult
    /\ batch_call.results[3].sentiment = POSITIVE

====
